---- MODULE Spec2Model ----
(***************************************************************************)
(* Model of the cross-camera calibration state, the chessboard calibration *)
(* and the coordinate transformer of src/calibration.py (class             *)
(* CameraCalibration), of the four-point transform of src/ui_tool.py and   *)
(* of the frame decoder of src/epiceye/epicraw_parser.py.                  *)
(*                                                                         *)
(* Floating-point values are modelled as extended rationals <<n, d>>:      *)
(*   d > 0  : the finite value n/d in lowest terms                         *)
(*   <<1,0>>, <<-1,0>> : +infinity, -infinity                              *)
(*   <<0,0>> : NaN                                                         *)
(* with numpy's rules for division by zero and NaN propagation.  Rounding  *)
(* (float32/float64) and signed zeros are not modelled.                    *)
(* Python's None is the empty tuple; every other value is a non-empty      *)
(* tuple, so a value can always be compared with None.                     *)
(***************************************************************************)
EXTENDS Integers, Sequences, FiniteSets, TLC

None == <<>>

(***************************************************************************)
(* numpy float arithmetic                                                  *)
(***************************************************************************)
Abs(n) == IF n < 0 THEN -n ELSE n

Sign(n) == IF n > 0 THEN 1 ELSE IF n < 0 THEN -1 ELSE 0

RECURSIVE Gcd(_, _)
Gcd(a, b) == IF b = 0 THEN a ELSE Gcd(b, a % b)

Mk(n, d) ==
    IF d = 0 THEN <<Sign(n), 0>>
    ELSE LET g == Gcd(Abs(n), Abs(d))
             s == Sign(d)
         IN  <<(s * n) \div g, (s * d) \div g>>

F(n) == <<n, 1>>

NaN == <<0, 0>>

PInf == <<1, 0>>

NInf == <<-1, 0>>

IsNaN(a) == a = NaN

IsInf(a) == a = PInf \/ a = NInf

IsFinite(a) == a[2] # 0

FNeg(a) == <<-a[1], a[2]>>

FAdd(a, b) ==
    IF IsNaN(a) \/ IsNaN(b) THEN NaN
    ELSE IF IsInf(a) THEN (IF IsInf(b) /\ b # a THEN NaN ELSE a)
    ELSE IF IsInf(b) THEN b
    ELSE Mk(a[1] * b[2] + b[1] * a[2], a[2] * b[2])

FSub(a, b) == FAdd(a, FNeg(b))

FMul(a, b) == Mk(a[1] * b[1], a[2] * b[2])

FDiv(a, b) ==
    LET s == IF b[1] < 0 THEN -1 ELSE 1
    IN  Mk(s * a[1] * b[2], a[2] * Abs(b[1]))

FRank(a) == IF IsFinite(a) THEN 0 ELSE a[1]

FLt(a, b) ==
    /\ ~IsNaN(a)
    /\ ~IsNaN(b)
    /\ IF IsFinite(a) /\ IsFinite(b)
       THEN a[1] * b[2] < b[1] * a[2]
       ELSE FRank(a) < FRank(b)

FLe(a, b) == ~IsNaN(a) /\ ~IsNaN(b) /\ (a = b \/ FLt(a, b))

FGt(a, b) == FLt(b, a)

\* Python int(x) of a finite float: truncation toward zero
FTrunc(a) ==
    IF a[1] >= 0 THEN a[1] \div a[2] ELSE -((-a[1]) \div a[2])

\* |a| > 10^(-k), computed without forming 10^k
RECURSIVE DivPow10(_, _)
DivPow10(q, k) == IF k = 0 THEN q ELSE DivPow10(q \div 10, k - 1)

AbsGtPow10Neg(a, k) ==
    /\ ~IsNaN(a)
    /\ \/ IsInf(a)
       \/ a[1] # 0 /\ DivPow10(a[2] \div Abs(a[1]), k) = 0

(***************************************************************************)
(* numpy vectors and 3x3 matrices                                          *)
(***************************************************************************)
Dot3(a, b) == FAdd(FAdd(FMul(a[1], b[1]), FMul(a[2], b[2])), FMul(a[3], b[3]))

Col(M, j) == <<M[1][j], M[2][j], M[3][j]>>

MatMul(A, B) == [i \in 1..3 |-> [j \in 1..3 |-> Dot3(A[i], Col(B, j))]]

MatVec(A, v) == [i \in 1..3 |-> Dot3(A[i], v)]

MatSub(A, B) == [i \in 1..3 |-> [j \in 1..3 |-> FSub(A[i][j], B[i][j])]]

MatScaleDiv(A, s) == [i \in 1..3 |-> [j \in 1..3 |-> FDiv(A[i][j], s)]]

Outer(t, n) == [i \in 1..3 |-> [j \in 1..3 |-> FMul(t[i], n[j])]]

MatHasNanOrInf(A) == \E i \in 1..3 : \E j \in 1..3 : ~IsFinite(A[i][j])

Det3(A) ==
    FAdd(FSub(FMul(A[1][1], FSub(FMul(A[2][2], A[3][3]), FMul(A[2][3], A[3][2]))),
              FMul(A[1][2], FSub(FMul(A[2][1], A[3][3]), FMul(A[2][3], A[3][1])))),
         FMul(A[1][3], FSub(FMul(A[2][1], A[3][2]), FMul(A[2][2], A[3][1]))))

Cof(A, r1, r2, c1, c2) == FSub(FMul(A[r1][c1], A[r2][c2]), FMul(A[r1][c2], A[r2][c1]))

Adj3(A) ==
    << <<Cof(A, 2, 3, 2, 3), FNeg(Cof(A, 1, 3, 2, 3)), Cof(A, 1, 2, 2, 3)>>,
       <<FNeg(Cof(A, 2, 3, 1, 3)), Cof(A, 1, 3, 1, 3), FNeg(Cof(A, 1, 2, 1, 3))>>,
       <<Cof(A, 2, 3, 1, 2), FNeg(Cof(A, 1, 3, 1, 2)), Cof(A, 1, 2, 1, 2)>> >>

\* np.linalg.inv from the adjugate and the determinant; None stands for the
\* LinAlgError raised on a singular matrix
InvFromAdjugate(adj, det) ==
    IF det = F(0) THEN None ELSE MatScaleDiv(adj, det)

MatInv(A) == InvFromAdjugate(Adj3(A), Det3(A))

\* np.linalg.norm of a 3-vector whose squared length is a perfect square
ISqrt(n) == CHOOSE r \in 0..n : r * r = n

Norm3(v) ==
    LET s == Dot3(v, v) IN Mk(ISqrt(s[1]), ISqrt(s[2]))

\* np.min / np.max over a non-empty sequence of floats (NaN propagates)
RECURSIVE SeqMin(_)
SeqMin(s) ==
    IF Len(s) = 1 THEN s[1]
    ELSE LET m == SeqMin(Tail(s))
         IN  IF IsNaN(s[1]) \/ IsNaN(m) THEN NaN
             ELSE IF FLt(s[1], m) THEN s[1] ELSE m

RECURSIVE SeqMax(_)
SeqMax(s) ==
    IF Len(s) = 1 THEN s[1]
    ELSE LET m == SeqMax(Tail(s))
         IN  IF IsNaN(s[1]) \/ IsNaN(m) THEN NaN
             ELSE IF FGt(s[1], m) THEN s[1] ELSE m

IMax(a, b) == IF a >= b THEN a ELSE b

IMin(a, b) == IF a <= b THEN a ELSE b

(***************************************************************************)
(* Values handed to the transformer                                        *)
(***************************************************************************)
\* 3x3 pinhole camera matrix [[fx,0,cx],[0,fy,cy],[0,0,1]]
CameraMatrix(fx, fy, cx, cy) ==
    << <<F(fx), F(0), F(cx)>>, <<F(0), F(fy), F(cy)>>, <<F(0), F(0), F(1)>> >>

\* 4x4 homogeneous pose built from a rotation and a translation
PoseMatrix(R, t) ==
    << <<F(R[1][1]), F(R[1][2]), F(R[1][3]), F(t[1])>>,
       <<F(R[2][1]), F(R[2][2]), F(R[2][3]), F(t[2])>>,
       <<F(R[3][1]), F(R[3][2]), F(R[3][3]), F(t[3])>>,
       <<F(0), F(0), F(0), F(1)>> >>

Identity3 == << <<1, 0, 0>>, <<0, 1, 0>>, <<0, 0, 1>> >>

\* extrinsic_matrix[:3, :3] and extrinsic_matrix[:3, 3]
RotOf(ext) == [i \in 1..3 |-> [j \in 1..3 |-> ext[i][j]]]

TransOf(ext) == [i \in 1..3 |-> ext[i][4]]

\* extrinsic_matrix @ [x, y, z, 1], first three components
\* the pose applied with its translation subtracted
ApplyPose_subtract(ext, p) ==
    [i \in 1..3 |->
        FAdd(FAdd(FAdd(FMul(ext[i][1], p[1]), FMul(ext[i][2], p[2])),
                  FMul(ext[i][3], p[3])),
             FMul(ext[i][4], F(-1)))]

ApplyPose(ext, p) ==
    [i \in 1..3 |->
        FAdd(FAdd(FAdd(FMul(ext[i][1], p[1]), FMul(ext[i][2], p[2])),
                  FMul(ext[i][3], p[3])),
             FMul(ext[i][4], F(1)))]

\* a distortion array is a 1-tuple holding its coefficients, so that the
\* empty array << <<>> >> differs from None
DistArray(coeffs) == <<coeffs>>

DistNonzero(dist) ==
    /\ dist # None
    /\ Len(dist[1]) > 0
    /\ \E i \in 1..Len(dist[1]) : dist[1][i] # F(0)

\* OpenCV accepts distortion vectors of 4, 5, 8, 12 or 14 coefficients (or
\* an empty one) and raises cv2.error otherwise
DistLenOk(dist) == dist = None \/ Len(dist[1]) \in {0, 4, 5, 8, 12, 14}

Ret(r, m) == [result |-> r, msg |-> m]

\* pinhole projection u = fx*X/Z + cx, v = fy*Y/Z + cy
ProjectPinhole(K, p) ==
    << FAdd(FDiv(FMul(K[1][1], p[1]), p[3]), K[1][3]),
       FAdd(FDiv(FMul(K[2][2], p[2]), p[3]), K[2][3]) >>

\* cv2.undistortPoints(point, K, dist, P=None): the normalised coordinates
\* of the pixel, scaled by the radial factor the library arrives at
UndistortPoints(point, K, scale) ==
    << FMul(scale, FDiv(FSub(point[1], K[1][3]), K[1][1])),
       FMul(scale, FDiv(FSub(point[2], K[2][3]), K[2][2])) >>

(***************************************************************************)
(* CameraCalibration: the coordinate transformer                           *)
(* Every operation is a function of the stored pose ext (the field         *)
(* extrinsic_matrix), its arguments and, where it calls OpenCV on a        *)
(* nonzero distortion vector, the library's outcome lib (radial factors).  *)
(* The result is [result, msg]: the value returned to the caller and the   *)
(* kind of diagnostic printed on the return path ("" when none).           *)
(***************************************************************************)
\* u_norm, v_norm: the normalised camera-1 coordinates of the pixel
NormalizedPoint(point, K1, dist1, lib) ==
    IF DistNonzero(dist1)
    THEN UndistortPoints(point, K1, lib.und)
    ELSE << FDiv(FSub(point[1], K1[1][3]), K1[1][1]),
            FDiv(FSub(point[2], K1[2][3]), K1[2][2]) >>

\* point_3d_cam1 = (u_norm * depth, v_norm * depth, depth)
BackProject(norm, depth) == << FMul(norm[1], depth), FMul(norm[2], depth), depth >>

\* the z test and cv2.projectPoints rejecting only z < 0
ProjectPoints_strict_z(cam2, K2, dist2, lib) ==
    IF FLt(cam2[3], F(0)) THEN Ret(None, "behind_camera")
    ELSE IF K2 = None \/ ~DistLenOk(dist2) THEN Ret(None, "exception")
    ELSE IF DistNonzero(dist2)
         THEN Ret(ProjectPinhole(K2, <<FMul(lib.proj, cam2[1]),
                                       FMul(lib.proj, cam2[2]), cam2[3]>>), "")
    ELSE Ret(ProjectPinhole(K2, cam2), "")

\* the z test on point_3d_cam2 and cv2.projectPoints with zero rvec and tvec
ProjectPoints(cam2, K2, dist2, lib) ==
    IF FLe(cam2[3], F(0)) THEN Ret(None, "behind_camera")
    ELSE IF K2 = None \/ ~DistLenOk(dist2) THEN Ret(None, "exception")
    ELSE IF DistNonzero(dist2)
         THEN Ret(ProjectPinhole(K2, <<FMul(lib.proj, cam2[1]),
                                       FMul(lib.proj, cam2[2]), cam2[3]>>), "")
    ELSE Ret(ProjectPinhole(K2, cam2), "")

transform_point_with_projectpoints(ext, point, K1, K2, dist1, dist2, depth, lib) ==
    IF ext = None THEN Ret(None, "not_calibrated")
    ELSE IF depth = None \/ FLe(depth, F(0)) THEN Ret(None, "need_depth")
    ELSE IF K1 = None THEN Ret(None, "exception")
    ELSE IF DistNonzero(dist1) /\ ~DistLenOk(dist1) THEN Ret(None, "exception")
    ELSE ProjectPoints(
             ApplyPose(ext, BackProject(NormalizedPoint(point, K1, dist1, lib),
                                        depth)),
             K2, dist2, lib)

\* point_3d_cam1 = ((px - cx1) * depth / fx1, (py - cy1) * depth / fy1, depth)
Cam1Point(point, K1, depth) ==
    << FDiv(FMul(FSub(point[1], K1[1][3]), depth), K1[1][1]),
       FDiv(FMul(FSub(point[2], K1[2][3]), depth), K1[2][2]),
       depth >>

\* reading camera2_matrix, the z test and the pinhole projection
PinholeToCamera2(cam2, K2) ==
    IF K2 = None THEN Ret(None, "exception")
    ELSE IF FLe(cam2[3], F(0)) THEN Ret(None, "behind_camera")
    ELSE Ret(ProjectPinhole(K2, cam2), "")

\* transform_point falling back to the identity pose when none is stored
transform_point_default_pose(ext, point, K1, K2, dist1, dist2, depth) ==
    IF depth = None \/ FLe(depth, F(0)) THEN Ret(None, "need_depth")
    ELSE IF K1 = None THEN Ret(None, "exception")
    ELSE PinholeToCamera2(
             ApplyPose(IF ext = None THEN PoseMatrix(Identity3, <<0, 0, 0>>)
                       ELSE ext,
                       Cam1Point(point, K1, depth)),
             K2)

\* transform_point testing the depth before the stored pose
transform_point_depth_first(ext, point, K1, K2, dist1, dist2, depth) ==
    IF depth = None \/ FLe(depth, F(0)) THEN Ret(None, "need_depth")
    ELSE IF ext = None THEN Ret(None, "not_calibrated")
    ELSE IF K1 = None THEN Ret(None, "exception")
    ELSE PinholeToCamera2(ApplyPose(ext, Cam1Point(point, K1, depth)), K2)

transform_point(ext, point, K1, K2, dist1, dist2, depth) ==
    IF ext = None THEN Ret(None, "not_calibrated")
    ELSE IF depth = None \/ FLe(depth, F(0)) THEN Ret(None, "need_depth")
    ELSE IF K1 = None THEN Ret(None, "exception")
    ELSE PinholeToCamera2(ApplyPose(ext, Cam1Point(point, K1, depth)), K2)

\* |a| < 10^(-k), computed without forming 10^k
AbsLtPow10Neg(a, k) ==
    /\ IsFinite(a)
    /\ \/ a[1] = 0
       \/ DivPow10((a[2] - 1) \div Abs(a[1]), k) # 0

\* the four corners of roi = (x, y, w, h), in the order the code builds them
RoiCorners(roi) ==
    << <<roi[1], roi[2]>>,
       <<roi[1] + roi[3], roi[2]>>,
       <<roi[1] + roi[3], roi[2] + roi[4]>>,
       <<roi[1], roi[2] + roi[4]>> >>

\* a depth map is a tuple of rows; shape[0] is the number of rows
MapH(depth_map) == Len(depth_map)

MapW(depth_map) == Len(depth_map[1])

\* depth_map[v, u] for 0-based column u and row v
DepthAt(depth_map, u, v) == depth_map[v + 1][u + 1]

InMap(depth_map, u, v) ==
    0 <= v /\ v < MapH(depth_map) /\ 0 <= u /\ u < MapW(depth_map)

\* a corner whose depth has been read: transformed when the depth is > 0,
\* skipped (None) otherwise
RoiCornerAtDepth(ext, corner, K1, K2, dist1, dist2, depth, lib) ==
    IF FGt(depth, F(0))
    THEN transform_point_with_projectpoints(
             ext, <<F(corner[1]), F(corner[2])>>, K1, K2,
             dist1, dist2, depth, lib).result
    ELSE None

\* body of the corner loop of transform_roi: the transformed corner, or None
\* when the corner is skipped
RoiCornerTransform(ext, corner, K1, K2, dist1, dist2, depth_map, lib) ==
    IF InMap(depth_map, corner[1], corner[2])
    THEN RoiCornerAtDepth(ext, corner, K1, K2, dist1, dist2,
                          DepthAt(depth_map, corner[1], corner[2]), lib)
    ELSE None

\* the list transformed_corners built by the loop of transform_roi
RoiTransformedCorners(ext, roi, K1, K2, dist1, dist2, depth_map, libs) ==
    SelectSeq([i \in 1..4 |->
                  RoiCornerTransform(ext, RoiCorners(roi)[i], K1, K2,
                                     dist1, dist2, depth_map, libs[i])],
              LAMBDA c : c # None)

\* the rectangle (x, y, w, h) transform_roi builds from the extreme
\* coordinates
RoiBoundingBox(min_x, min_y, max_x, max_y) ==
    << IMax(0, min_x), IMax(0, min_y), max_x - min_x, max_y - min_y >>

\* int() of the minima and maxima of the corner coordinates us, vs; int() of
\* NaN or infinity raises
RoiExtent(us, vs) ==
    IF \E e \in {SeqMin(us), SeqMin(vs), SeqMax(us), SeqMax(vs)} : ~IsFinite(e)
    THEN Ret(None, "exception")
    ELSE Ret(RoiBoundingBox(FTrunc(SeqMin(us)), FTrunc(SeqMin(vs)),
                            FTrunc(SeqMax(us)), FTrunc(SeqMax(vs))), "")

\* the corner-count test accepting a single transformed corner
RoiFromCorners_one_corner(tc) ==
    IF Len(tc) < 1 THEN Ret(None, "too_few_corners")
    ELSE RoiExtent([i \in 1..Len(tc) |-> tc[i][1]],
                   [i \in 1..Len(tc) |-> tc[i][2]])

\* the corner-count test on transformed_corners and the rectangle around them
RoiFromCorners(tc) ==
    IF Len(tc) < 2 THEN Ret(None, "too_few_corners")
    ELSE RoiExtent([i \in 1..Len(tc) |-> tc[i][1]],
                   [i \in 1..Len(tc) |-> tc[i][2]])

transform_roi(ext, roi, K1, K2, dist1, dist2, depth_map, libs) ==
    IF ext = None THEN Ret(None, "not_calibrated")
    ELSE IF depth_map = None THEN Ret(None, "need_depth_map")
    ELSE RoiFromCorners(RoiTransformedCorners(ext, roi, K1, K2, dist1, dist2,
                                              depth_map, libs))

\* plane_normal, or [0, 0, 1] when none is given
PlaneNormalOrDefault(plane_normal) ==
    IF plane_normal = None THEN <<F(0), F(0), F(1)>> ELSE plane_normal

\* the plane normal used as given
UnitNormal_raw(n0) == [i \in 1..3 |-> FDiv(n0[i], F(1))]

\* plane_normal / np.linalg.norm(plane_normal)
UnitNormal(n0) == [i \in 1..3 |-> FDiv(n0[i], Norm3(n0))]

\* R_modified = R - t * n^T / d
RModified(ext, n, d) ==
    MatSub(RotOf(ext), MatScaleDiv(Outer(TransOf(ext), n), d))

\* H divided by H[2,2] without the test for H[2,2] near 0
NormalizeH_no_epsilon(H) == Ret(MatScaleDiv(H, H[3][3]), "")

\* H / H[2,2] when |H[2,2]| > 1e-10
NormalizeH(H) ==
    IF AbsGtPow10Neg(H[3][3], 10)
    THEN Ret(MatScaleDiv(H, H[3][3]), "")
    ELSE Ret(None, "near_singular")

\* the NaN/infinity test on R_modified and H = K2 @ R_modified @ K1_inv
HomographyFrom(R_modified, K1_inv, K2) ==
    IF K1_inv = None THEN Ret(None, "exception")
    ELSE IF MatHasNanOrInf(R_modified) THEN Ret(None, "nan_or_inf")
    ELSE IF K2 = None THEN Ret(None, "exception")
    ELSE NormalizeH(MatMul(MatMul(K2, R_modified), K1_inv))

compute_homography_from_extrinsic(ext, K1, K2, plane_depth, plane_normal) ==
    IF ext = None THEN Ret(None, "not_calibrated")
    ELSE IF K1 = None THEN Ret(None, "exception")
    ELSE HomographyFrom(
             RModified(ext, UnitNormal(PlaneNormalOrDefault(plane_normal)),
                       plane_depth),
             MatInv(K1), K2)

\* the rectangle (x, y, w, h) transform_roi_planar builds from the extreme
\* coordinates
PlanarBoundingBox(min_x, min_y, max_x, max_y) ==
    << IMax(0, min_x), IMax(0, min_y),
       IMax(1, max_x - min_x), IMax(1, max_y - min_y) >>

\* the four ROI corners as float pixel coordinates
PlanarCorners(roi) ==
    [i \in 1..4 |-> <<F(RoiCorners(roi)[i][1]), F(RoiCorners(roi)[i][2])>>]

\* a normalised point put back into pixel coordinates: fx * x + cx, fy * y + cy
ToPixel(K1, q) ==
    << FAdd(FMul(K1[1][1], q[1]), K1[1][3]),
       FAdd(FMul(K1[2][2], q[2]), K1[2][3]) >>

\* the corners after the undistortion step: undistorted and put back into
\* pixel coordinates when camera 1 has a nonzero distortion vector
PlanarUndistorted(distorted, K1, dist1, lib) ==
    IF DistNonzero(dist1)
    THEN [i \in 1..4 |-> ToPixel(K1, UndistortPoints(distorted[i], K1, lib.und))]
    ELSE distorted

\* int() of the minima and maxima of the mapped corner coordinates
PlanarExtent(us, vs) ==
    IF \E e \in {SeqMin(us), SeqMin(vs), SeqMax(us), SeqMax(vs)} : ~IsFinite(e)
    THEN Ret(None, "exception")
    ELSE Ret(PlanarBoundingBox(FTrunc(SeqMin(us)), FTrunc(SeqMin(vs)),
                               FTrunc(SeqMax(us)), FTrunc(SeqMax(vs))), "")

\* the test |w| < 1e-6 on the homogeneous corners and their dehomogenisation
PlanarDehomogenize(homo) ==
    IF \E i \in 1..4 : AbsLtPow10Neg(homo[i][3], 6)
    THEN Ret(None, "near_singular")
    ELSE PlanarExtent([i \in 1..4 |-> FDiv(homo[i][1], homo[i][3])],
                      [i \in 1..4 |-> FDiv(homo[i][2], homo[i][3])])

\* the NaN/infinity test on the undistorted corners and H applied to them
PlanarMap(H, und, undist) ==
    IF undist /\ \E i \in 1..4 : \E j \in 1..2 : ~IsFinite(und[i][j])
    THEN Ret(None, "nan_or_inf")
    ELSE PlanarDehomogenize(
             [i \in 1..4 |-> MatVec(H, <<und[i][1], und[i][2], F(1)>>)])

\* transform_roi_planar once the homography call has returned Hr
PlanarWithHomography(Hr, roi, K1, dist1, lib) ==
    IF Hr.result = None THEN Ret(None, Hr.msg)
    ELSE IF DistNonzero(dist1) /\ ~DistLenOk(dist1) THEN Ret(None, "exception")
    ELSE PlanarMap(Hr.result,
                   PlanarUndistorted(PlanarCorners(roi), K1, dist1, lib),
                   DistNonzero(dist1))

transform_roi_planar(ext, roi, K1, K2, plane_depth, dist1, dist2, lib) ==
    IF ext = None THEN Ret(None, "not_calibrated")
    ELSE PlanarWithHomography(
             compute_homography_from_extrinsic(ext, K1, K2, plane_depth, None),
             roi, K1, dist1, lib)

is_calibrated(ext) == ext # None

(***************************************************************************)
(* CameraCalibrationUI: depth lookup of the four-point transform           *)
(***************************************************************************)
RECURSIVE FSum(_)
FSum(s) == IF Len(s) = 0 THEN F(0) ELSE FAdd(s[1], FSum(Tail(s)))

\* depth_map[y_min:y_max, x_min:x_max] flattened row by row
Neighborhood(depth_map, x_min, x_max, y_min, y_max) ==
    [k \in 1..(IMax(0, x_max - x_min) * IMax(0, y_max - y_min)) |->
        DepthAt(depth_map, x_min + ((k - 1) % (x_max - x_min)),
                y_min + ((k - 1) \div (x_max - x_min)))]

\* np.mean(valid_depths), or 0.0 when there is no valid depth
MeanOrZero(valid_depths) ==
    IF Len(valid_depths) > 0
    THEN FDiv(FSum(valid_depths), F(Len(valid_depths)))
    ELSE F(0)

get_depth_from_neighborhood(depth_map, x, y, search_radius) ==
    MeanOrZero(SelectSeq(
        Neighborhood(depth_map,
                     IMax(0, x - search_radius),
                     IMin(MapW(depth_map), x + search_radius + 1),
                     IMax(0, y - search_radius),
                     IMin(MapH(depth_map), y + search_radius + 1)),
        LAMBDA dd : FGt(dd, F(0))))

\* the depth read at a point, replaced by the neighbourhood mean when <= 0
DepthOrNeighborhood(depth, depth_map, x, y) ==
    IF FLe(depth, F(0))
    THEN get_depth_from_neighborhood(depth_map, x, y, 5)
    ELSE depth

\* the depth test_transform uses for point (x, y) inside the map
UiPointDepth(depth_map, x, y) ==
    DepthOrNeighborhood(DepthAt(depth_map, x, y), depth_map, x, y)

\* a selected point whose depth has been settled: transformed when the depth
\* is > 0, None otherwise
UiPointAtDepth(ext, point, K1, K2, dist1, dist2, depth, lib) ==
    IF FGt(depth, F(0))
    THEN transform_point_with_projectpoints(
             ext, <<F(point[1]), F(point[2])>>, K1, K2,
             dist1, dist2, depth, lib).result
    ELSE None

\* body of the point loop of test_transform (3D path): the entry appended to
\* transformed_points_list for one selected point
UiPointTransform(ext, point, K1, K2, dist1, dist2, depth_map, lib) ==
    IF point = None THEN None
    ELSE IF ~InMap(depth_map, point[1], point[2]) THEN None
    ELSE UiPointAtDepth(ext, point, K1, K2, dist1, dist2,
                        UiPointDepth(depth_map, point[1], point[2]), lib)

\* the test on the number of transformed points
UiPointsResult(lst) ==
    IF Len(SelectSeq(lst, LAMBDA q : q # None)) < 2
    THEN Ret(None, "too_few_points")
    ELSE Ret(lst, "")

\* test_transform, 3D path: the list transformed_points_list, or None when
\* fewer than 2 points were transformed and the UI reports failure
test_transform(ext, points, K1, K2, dist1, dist2, depth_map, lib) ==
    UiPointsResult([i \in 1..4 |->
                       UiPointTransform(ext, points[i], K1, K2, dist1, dist2,
                                        depth_map, lib)])

(***************************************************************************)
(* Inputs                                                                  *)
(***************************************************************************)
\* width and height of the depth maps handed to the region transforms
MaxMapW == 2

MaxMapH == 2

RotY180 == << <<-1, 0, 0>>, <<0, 1, 0>>, <<0, 0, -1>> >>

PoseShift == PoseMatrix(Identity3, <<100, 0, 0>>)

PoseLeft == PoseMatrix(Identity3, <<-500, -400, 0>>)

PoseForward == PoseMatrix(Identity3, <<0, 0, 1000>>)

PoseBack == PoseMatrix(Identity3, <<0, 0, -1000>>)

PoseTurned == PoseMatrix(RotY180, <<0, 0, 2000>>)

Poses == {PoseShift, PoseLeft, PoseForward, PoseBack, PoseTurned}

CamA == CameraMatrix(800, 800, 320, 240)

CamB == CameraMatrix(400, 400, 160, 120)

\* a camera matrix np.linalg.inv rejects
CamSingular == CameraMatrix(0, 800, 320, 240)

DistZero == DistArray(<<F(0), F(0), F(0), F(0)>>)

DistEmpty == DistArray(<<>>)

DistRadial == DistArray(<<Mk(1, 10), F(0), F(0), F(0)>>)

DistBadLen == DistArray(<<Mk(1, 10), F(0), F(0)>>)

\* three zeros: not a number of coefficients OpenCV accepts
DistZeroBadLen == DistArray(<<F(0), F(0), F(0)>>)

Dists == {None, DistEmpty, DistZero, DistRadial, DistBadLen, DistZeroBadLen}

\* OpenCV's undistortPoints / projectPoints on a nonzero distortion vector
\* scale the normalised coordinates by a radial factor; the factor is the
\* library's outcome
LibScales == {Mk(9, 10), Mk(11, 10)}

NoLib == [und |-> F(1), proj |-> F(1)]

LibFor(dist1, dist2) ==
    { [und |-> a, proj |-> b] :
        a \in (IF DistNonzero(dist1) /\ DistLenOk(dist1) THEN LibScales ELSE {F(1)}),
        b \in (IF DistNonzero(dist2) /\ DistLenOk(dist2) THEN LibScales ELSE {F(1)}) }

Points == { <<F(320), F(240)>>, <<F(400), F(300)>>, <<F(0), F(0)>> }

Depths == {None, NaN, F(-5), F(0), F(500), F(1000)}

PlaneDepths == {F(0), F(-1000), F(500), F(1000), F(2000), NaN}

PlaneNormals == {None, <<F(0), F(0), F(2)>>, <<F(0), F(3), F(4)>>,
                 <<F(0), F(0), F(0)>>, <<F(0), F(0), F(-1)>>}

\* depth maps: every pixel holds 1000 (valid) or 0 (invalid), the invalid
\* pixels being none, all, one pixel, all but one pixel, one row or one
\* column; plus two maps with NaN, negative and unequal depths
MapPixels == (1..MaxMapW) \X (1..MaxMapH)

InvalidSets ==
    {{}, MapPixels}
    \cup { {q} : q \in MapPixels }
    \cup { MapPixels \ {q} : q \in MapPixels }
    \cup { {q \in MapPixels : q[1] = u} : u \in 1..MaxMapW }
    \cup { {q \in MapPixels : q[2] = v} : v \in 1..MaxMapH }

DepthMaps ==
    { [v \in 1..MaxMapH |-> [u \in 1..MaxMapW |->
          IF <<u, v>> \in inv THEN F(0) ELSE F(1000)]] : inv \in InvalidSets }
    \cup { [v \in 1..MaxMapH |-> [u \in 1..MaxMapW |->
              IF u = 1 /\ v = 1 THEN NaN ELSE F(500)]],
           [v \in 1..MaxMapH |-> [u \in 1..MaxMapW |->
              IF u = 1 THEN F(-1) ELSE IF v = 1 THEN F(600) ELSE F(1000)]] }

\* rectangles (x, y, w, h) with x + w <= map width and y + h <= map height
Rois == { <<x0, y0, w0, h0>> \in (0..(MaxMapW - 1)) \X (0..(MaxMapH - 1))
                                 \X (0..MaxMapW) \X (0..MaxMapH) :
              x0 + w0 <= MaxMapW /\ y0 + h0 <= MaxMapH }

\* contents of the calibration file: a JSON object is a function from its
\* keys to values
Doc(ext, keys) ==
    [k \in {"extrinsic_matrix"} \cup keys |->
        CASE k = "extrinsic_matrix" -> ext
          [] k = "camera1_matrix" -> CamA
          [] k = "camera1_distortion" -> DistZero
          [] k = "camera2_matrix" -> CamB
          [] k = "camera2_distortion" -> DistRadial]

NoFile == [exists |-> FALSE]

FileOf(doc) == [exists |-> TRUE, readable |-> TRUE, data |-> doc]

CorruptFile == [exists |-> TRUE, readable |-> FALSE]

InitialFiles ==
    {NoFile, CorruptFile,
     FileOf([camera1_matrix |-> CamA]),
     FileOf(Doc(PoseShift, {"camera1_matrix", "camera1_distortion",
                            "camera2_matrix", "camera2_distortion"})),
     FileOf(Doc(PoseLeft, {"camera1_matrix"}))}
    \cup { FileOf(Doc(e, {})) : e \in Poses \ {PoseShift, PoseLeft} }

(***************************************************************************)
(* State                                                                   *)
(***************************************************************************)
\* the caller is between two calls (the UI is in its event loop)
Idle == [op |-> "idle"]

VARIABLES
    extrinsic_matrix,     \* self.extrinsic_matrix
    camera1_matrix,       \* self.camera1_matrix
    camera1_distortion,   \* self.camera1_distortion
    camera2_matrix,       \* self.camera2_matrix
    camera2_distortion,   \* self.camera2_distortion
    calib_file,           \* the file at self.calibration_file
    call                  \* the call the caller is in: operation, arguments and
                          \* outcome, or Idle between calls

calib == <<extrinsic_matrix, camera1_matrix, camera1_distortion,
           camera2_matrix, camera2_distortion>>

vars == <<extrinsic_matrix, camera1_matrix, camera1_distortion,
          camera2_matrix, camera2_distortion, calib_file, call>>

Init ==
    /\ extrinsic_matrix = None
    /\ camera1_matrix = None
    /\ camera1_distortion = None
    /\ camera2_matrix = None
    /\ camera2_distortion = None
    /\ calib_file \in InitialFiles
    /\ call = Idle

(***************************************************************************)
(* Persistence                                                             *)
(***************************************************************************)
LoadCalibration ==
    /\ call = Idle
    /\ IF ~calib_file.exists
       THEN /\ call' = [op |-> "load_calibration", result |-> FALSE]
            /\ UNCHANGED <<calib, calib_file>>
       ELSE IF ~calib_file.readable
               \/ "extrinsic_matrix" \notin DOMAIN calib_file.data
       THEN /\ call' = [op |-> "load_calibration", result |-> FALSE]
            /\ UNCHANGED <<calib, calib_file>>
       ELSE LET data == calib_file.data
            IN  /\ extrinsic_matrix' = data["extrinsic_matrix"]
                /\ camera1_matrix' =
                       IF "camera1_matrix" \in DOMAIN data
                       THEN data["camera1_matrix"] ELSE camera1_matrix
                /\ camera1_distortion' =
                       IF "camera1_distortion" \in DOMAIN data
                       THEN data["camera1_distortion"] ELSE camera1_distortion
                /\ camera2_matrix' =
                       IF "camera2_matrix" \in DOMAIN data
                       THEN data["camera2_matrix"] ELSE camera2_matrix
                /\ camera2_distortion' =
                       IF "camera2_distortion" \in DOMAIN data
                       THEN data["camera2_distortion"] ELSE camera2_distortion
                /\ call' = [op |-> "load_calibration", result |-> TRUE]
                /\ UNCHANGED calib_file

\* the JSON object save_calibration writes, without the distortion of camera 2
SavedDoc_without_camera2_distortion ==
    LET keys == {"extrinsic_matrix"}
                \cup (IF camera1_matrix # None THEN {"camera1_matrix"} ELSE {})
                \cup (IF camera1_distortion # None THEN {"camera1_distortion"} ELSE {})
                \cup (IF camera2_matrix # None THEN {"camera2_matrix"} ELSE {})
    IN  [k \in keys |->
            CASE k = "extrinsic_matrix" -> extrinsic_matrix
              [] k = "camera1_matrix" -> camera1_matrix
              [] k = "camera1_distortion" -> camera1_distortion
              [] k = "camera2_matrix" -> camera2_matrix]

\* the JSON object save_calibration writes
SavedDoc ==
    LET keys == {"extrinsic_matrix"}
                \cup (IF camera1_matrix # None THEN {"camera1_matrix"} ELSE {})
                \cup (IF camera1_distortion # None THEN {"camera1_distortion"} ELSE {})
                \cup (IF camera2_matrix # None THEN {"camera2_matrix"} ELSE {})
                \cup (IF camera2_distortion # None THEN {"camera2_distortion"} ELSE {})
    IN  [k \in keys |->
            CASE k = "extrinsic_matrix" -> extrinsic_matrix
              [] k = "camera1_matrix" -> camera1_matrix
              [] k = "camera1_distortion" -> camera1_distortion
              [] k = "camera2_matrix" -> camera2_matrix
              [] k = "camera2_distortion" -> camera2_distortion]

SaveCalibration ==
    /\ call = Idle
    /\ IF extrinsic_matrix = None
       THEN /\ call' = [op |-> "save_calibration", result |-> FALSE]
            /\ UNCHANGED <<calib, calib_file>>
       ELSE /\ calib_file' = FileOf(SavedDoc)
            /\ call' = [op |-> "save_calibration", result |-> TRUE]
            /\ UNCHANGED calib

(***************************************************************************)
(* Transform and query calls                                               *)
(***************************************************************************)
IsCalibrated ==
    /\ call = Idle
    /\ call' = [op |-> "is_calibrated", result |-> is_calibrated(extrinsic_matrix)]
    /\ UNCHANGED <<calib, calib_file>>

TransformPoint ==
    /\ call = Idle
    /\ \E point \in Points, K1 \in {None, CamA}, K2 \in {None, CamA, CamB},
          dist1 \in {None, DistRadial}, dist2 \in {None, DistRadial},
          depth \in Depths :
        \E r \in {transform_point(extrinsic_matrix, point, K1, K2,
                                  dist1, dist2, depth)} :
            /\ call' = [op |-> "transform_point", point |-> point,
                        K1 |-> K1, K2 |-> K2, dist1 |-> dist1, dist2 |-> dist2,
                        depth |-> depth, lib |-> NoLib,
                        result |-> r.result, msg |-> r.msg]
            /\ UNCHANGED <<calib, calib_file>>

TransformPointWithProjectpoints ==
    /\ call = Idle
    /\ \E point \in Points, K1 \in {None, CamA}, K2 \in {None, CamA, CamB},
          dist1 \in Dists, dist2 \in Dists, depth \in Depths :
         \E lib \in LibFor(dist1, dist2) :
           \E r \in {transform_point_with_projectpoints(
                         extrinsic_matrix, point, K1, K2, dist1, dist2, depth,
                         lib)} :
               /\ call' = [op |-> "transform_point_with_projectpoints",
                           point |-> point, K1 |-> K1, K2 |-> K2,
                           dist1 |-> dist1, dist2 |-> dist2,
                           depth |-> depth, lib |-> lib,
                           result |-> r.result, msg |-> r.msg]
               /\ UNCHANGED <<calib, calib_file>>

RoiDists == { <<None, None>>, <<DistRadial, DistZero>>, <<DistEmpty, DistRadial>> }

TransformRoi ==
    /\ call = Idle
    /\ \E roi \in Rois, K1 \in {None, CamA}, K2 \in {CamA}, dd \in RoiDists,
          depth_map \in DepthMaps \cup {None} :
         \E lib \in LibFor(dd[1], dd[2]) :
           \E r \in {transform_roi(extrinsic_matrix, roi, K1, K2, dd[1], dd[2],
                                   depth_map, <<lib, lib, lib, lib>>)} :
               /\ call' = [op |-> "transform_roi", roi |-> roi,
                           K1 |-> K1, K2 |-> K2, dist1 |-> dd[1], dist2 |-> dd[2],
                           depth_map |-> depth_map, lib |-> lib,
                           result |-> r.result, msg |-> r.msg]
               /\ UNCHANGED <<calib, calib_file>>

ComputeHomography ==
    /\ call = Idle
    /\ \E K1 \in {None, CamA, CamSingular}, K2 \in {None, CamA, CamB},
          plane_depth \in PlaneDepths, plane_normal \in PlaneNormals :
        \E r \in {compute_homography_from_extrinsic(
                      extrinsic_matrix, K1, K2, plane_depth, plane_normal)} :
            /\ call' = [op |-> "compute_homography_from_extrinsic",
                        K1 |-> K1, K2 |-> K2, plane_depth |-> plane_depth,
                        plane_normal |-> plane_normal,
                        result |-> r.result, msg |-> r.msg]
            /\ UNCHANGED <<calib, calib_file>>

PlanarCams == { <<CamA, CamA>>, <<CamA, CamB>>, <<None, CamA>>,
                <<CamSingular, CamA>>, <<CamA, None>> }

TransformRoiPlanar ==
    /\ call = Idle
    /\ \E roi \in Rois, KK \in PlanarCams,
          plane_depth \in PlaneDepths, dist1 \in {None, DistZero, DistRadial} :
         \E lib \in LibFor(dist1, None) :
           \E r \in {transform_roi_planar(extrinsic_matrix, roi, KK[1], KK[2],
                                          plane_depth, dist1, None, lib)} :
               /\ call' = [op |-> "transform_roi_planar", roi |-> roi,
                           K1 |-> KK[1], K2 |-> KK[2],
                           plane_depth |-> plane_depth,
                           dist1 |-> dist1, lib |-> lib,
                           result |-> r.result, msg |-> r.msg]
               /\ UNCHANGED <<calib, calib_file>>

\* the four points test_transform works on, selected in the order TL, TR, BL, BR
UiPoints(roi) ==
    << RoiCorners(roi)[1], RoiCorners(roi)[2], RoiCorners(roi)[4],
       RoiCorners(roi)[3] >>

\* test_transform returns early unless a calibration exists
UiTestTransform ==
    /\ call = Idle
    /\ is_calibrated(extrinsic_matrix)
    /\ \E roi \in Rois, depth_map \in DepthMaps :
        \E r \in {test_transform(extrinsic_matrix, UiPoints(roi), CamA, CamA,
                                 None, None, depth_map, NoLib)} :
            /\ call' = [op |-> "test_transform", points |-> UiPoints(roi),
                        K1 |-> CamA, K2 |-> CamA, dist1 |-> None, dist2 |-> None,
                        depth_map |-> depth_map, lib |-> NoLib,
                        result |-> r.result, msg |-> r.msg]
            /\ UNCHANGED <<calib, calib_file>>

\* the call returns and its outcome is consumed by the caller
Return ==
    /\ call # Idle
    /\ call' = Idle
    /\ UNCHANGED <<calib, calib_file>>

Next ==
    \/ LoadCalibration
    \/ SaveCalibration
    \/ IsCalibrated
    \/ TransformPoint
    \/ TransformPointWithProjectpoints
    \/ TransformRoi
    \/ ComputeHomography
    \/ TransformRoiPlanar
    \/ UiTestTransform
    \/ Return

Spec == Init /\ [][Next]_vars

(***************************************************************************)
(* epicraw_parser: the binary frame decoder                                *)
(* A buffer is a sequence of bytes 0..255.  An ndarray is the pair         *)
(* <<shape, flat>> of its shape and its elements in row-major order; an    *)
(* element read by np.frombuffer is the tuple of the bytes it was read     *)
(* from (its bit pattern).  A decoder's outcome is [result, msg] with msg  *)
(* "raised" when the call ends in an uncaught exception.                   *)
(***************************************************************************)
\* position of index i in a slice of a sequence of length n
PyIndex(i, n) == IF i < 0 THEN IMax(0, n + i) ELSE IMin(i, n)

\* data[a:b]
Slice(data, a, b) ==
    SubSeq(data, PyIndex(a, Len(data)) + 1, PyIndex(b, Len(data)))

\* data[a:]
SliceFrom(data, a) == SubSeq(data, PyIndex(a, Len(data)) + 1, Len(data))

\* struct format 'i': little-endian signed 32-bit integer
Int32LE(b) ==
    b[1] + 256 * b[2] + 65536 * b[3]
    + 16777216 * (IF b[4] >= 128 THEN b[4] - 256 ELSE b[4])

\* the 'i' field at byte offset off of a header
HeaderInt(header, off) == Int32LE(SubSeq(header, off + 1, off + 4))

NdArray(shape, flat) == <<shape, flat>>

\* np.frombuffer(buffer, dtype) for a dtype of the given size in bytes;
\* None when the length is no multiple of the element size (ValueError)
FromBuffer(buffer, size, empty_ok) ==
    IF Len(buffer) % size # 0 THEN None
    ELSE IF Len(buffer) = 0 /\ ~empty_ok THEN None
    ELSE NdArray(<<Len(buffer) \div size>>,
                 [k \in 1..(Len(buffer) \div size) |->
                     SubSeq(buffer, (k - 1) * size + 1, k * size)])

\* product of the entries of a shape
RECURSIVE ShapeSize(_)
ShapeSize(shape) ==
    IF Len(shape) = 0 THEN 1 ELSE shape[1] * ShapeSize(Tail(shape))

\* arr.reshape(shape); raises when the number of elements differs
Reshape(arr, shape) ==
    IF arr = None THEN Ret(None, "raised")
    ELSE IF ShapeSize(shape) # Len(arr[2]) THEN Ret(None, "raised")
    ELSE Ret(NdArray(shape, arr[2]), "")

\* a failed np.frombuffer raises instead of returning
FromBufferOrRaise(arr) == IF arr = None THEN Ret(None, "raised") ELSE Ret(arr, "")

RGB24 == 0

Depth32 == 1

RGB48 == 2

\* element size in bytes and trailing dimensions of each DataType
ElementSize(raw_type) ==
    IF raw_type = RGB24 THEN 1 ELSE IF raw_type = RGB48 THEN 2 ELSE 4

array_from_buffer(buffer, width, height, raw_type, empty_ok) ==
    IF raw_type = Depth32
    THEN Reshape(FromBuffer(buffer, ElementSize(raw_type), empty_ok),
                 <<height, width>>)
    ELSE Reshape(FromBuffer(buffer, ElementSize(raw_type), empty_ok),
                 <<height, width, 3>>)

NotSupported == -1

EpicRaw1 == 0

EpicRaw2 == 1

\* ASCII "EPICRAW"
TagStem == <<69, 80, 73, 67, 82, 65, 87>>

\* _get_file_type applied to the 8-byte tag data[:8];
\* this variant has no rule for a tag ending in a zero byte
FileTypeOfTag_no_legacy(tag) ==
    IF tag = TagStem \o <<49>> THEN EpicRaw1
    ELSE IF tag = TagStem \o <<50>> THEN EpicRaw2
    ELSE NotSupported

FileTypeOfTag(tag) ==
    IF tag = TagStem \o <<49>> THEN EpicRaw1
    ELSE IF tag = TagStem \o <<50>> THEN EpicRaw2
    ELSE IF tag[8] = 0 THEN EpicRaw1
    ELSE NotSupported

\* _get_file_type; struct.unpack('<8s', ...) raises on fewer than 8 bytes
get_file_type(data) ==
    IF Len(data) < 8 THEN Ret(None, "raised")
    ELSE Ret(FileTypeOfTag(Slice(data, 0, 8)), "")

\* struct.unpack of a fixed header raises unless data holds size bytes
HeaderOk(data, size) == Len(data) >= size

\* fields of the 168-byte header "<8sii144s2i"
EpicRaw1_width(data) == HeaderInt(data, 8)

EpicRaw1_height(data) == HeaderInt(data, 12)

EpicRaw1_depth_data_len(data) == HeaderInt(data, 160)

EpicRaw1_image_data_len(data) == HeaderInt(data, 164)

EpicRaw1_get_image(data, empty_ok) ==
    IF ~HeaderOk(data, 168) THEN Ret(None, "raised")
    ELSE IF EpicRaw1_image_data_len(data) = 0 THEN Ret(None, "")
    ELSE array_from_buffer(SliceFrom(data, 168 + EpicRaw1_depth_data_len(data)),
                           EpicRaw1_width(data), EpicRaw1_height(data), RGB24, empty_ok)

EpicRaw1_get_depth(data, empty_ok) ==
    IF ~HeaderOk(data, 168) THEN Ret(None, "raised")
    ELSE IF EpicRaw1_depth_data_len(data) = 0 THEN Ret(None, "")
    ELSE array_from_buffer(Slice(data, 168, 168 + EpicRaw1_depth_data_len(data)),
                           EpicRaw1_width(data), EpicRaw1_height(data), Depth32, empty_ok)

\* "<16s72s80s": the matrix is bytes 16..88 of the header
EpicRaw1_get_camera_matrix(data, empty_ok) ==
    IF ~HeaderOk(data, 168) THEN Ret(None, "raised")
    ELSE Reshape(FromBuffer(SubSeq(data, 17, 88), 8, empty_ok), <<3, 3>>)

\* "<88s40s40s": the coefficients are bytes 88..128 of the header
EpicRaw1_get_distortion(data, empty_ok) ==
    IF ~HeaderOk(data, 168) THEN Ret(None, "raised")
    ELSE FromBufferOrRaise(FromBuffer(SubSeq(data, 89, 128), 8, empty_ok))

\* fields of the 40-byte header "<8s8i"
EpicRaw2_width(data) == HeaderInt(data, 8)

EpicRaw2_height(data) == HeaderInt(data, 12)

EpicRaw2_data_type(data) == HeaderInt(data, 16)

EpicRaw2_camera_matrix_len(data) == HeaderInt(data, 20)

EpicRaw2_distortion_len(data) == HeaderInt(data, 24)

EpicRaw2_config_str_len(data) == HeaderInt(data, 28)

EpicRaw2_depth_data_len(data) == HeaderInt(data, 32)

EpicRaw2_image_data_len(data) == HeaderInt(data, 36)

EpicRaw2_distortion_offset(data) == 40 + EpicRaw2_camera_matrix_len(data)

EpicRaw2_config_offset(data) ==
    EpicRaw2_distortion_offset(data) + EpicRaw2_distortion_len(data)

EpicRaw2_depth_offset(data) ==
    EpicRaw2_config_offset(data) + EpicRaw2_config_str_len(data)

\* the offset of the image payload with the depth payload left out
EpicRaw2_image_offset_no_depth(data) == EpicRaw2_depth_offset(data)

EpicRaw2_image_offset(data) ==
    EpicRaw2_depth_offset(data) + EpicRaw2_depth_data_len(data)

EpicRaw2_get_image(data, empty_ok) ==
    IF ~HeaderOk(data, 40) THEN Ret(None, "raised")
    ELSE IF EpicRaw2_image_data_len(data) = 0 THEN Ret(None, "")
    ELSE array_from_buffer(SliceFrom(data, EpicRaw2_image_offset(data)),
                           EpicRaw2_width(data), EpicRaw2_height(data), RGB48, empty_ok)

EpicRaw2_get_depth(data, empty_ok) ==
    IF ~HeaderOk(data, 40) THEN Ret(None, "raised")
    ELSE IF EpicRaw2_depth_data_len(data) = 0 THEN Ret(None, "")
    ELSE array_from_buffer(Slice(data, EpicRaw2_depth_offset(data),
                                 EpicRaw2_image_offset(data)),
                           EpicRaw2_width(data), EpicRaw2_height(data), Depth32, empty_ok)

EpicRaw2_get_camera_matrix(data, empty_ok) ==
    IF ~HeaderOk(data, 40) THEN Ret(None, "raised")
    ELSE Reshape(FromBuffer(Slice(data, 40, EpicRaw2_distortion_offset(data)),
                            8, empty_ok), <<3, 3>>)

EpicRaw2_get_distortion(data, empty_ok) ==
    IF ~HeaderOk(data, 40) THEN Ret(None, "raised")
    ELSE FromBufferOrRaise(FromBuffer(Slice(data, EpicRaw2_distortion_offset(data),
                                            EpicRaw2_config_offset(data)),
                                      8, empty_ok))

\* the file type of a buffer of at least 8 bytes
FileType(data) == FileTypeOfTag(Slice(data, 0, 8))

get_depth_from_bytes(data, empty_ok) ==
    IF Len(data) < 8 THEN Ret(None, "raised")
    ELSE IF FileType(data) = EpicRaw1 THEN EpicRaw1_get_depth(data, empty_ok)
    ELSE IF FileType(data) = EpicRaw2 THEN EpicRaw2_get_depth(data, empty_ok)
    ELSE Ret(None, "")

get_image_from_epicraw_bytes(data, empty_ok) ==
    IF Len(data) < 8 THEN Ret(None, "raised")
    ELSE IF FileType(data) = EpicRaw1 THEN EpicRaw1_get_image(data, empty_ok)
    ELSE IF FileType(data) = EpicRaw2 THEN EpicRaw2_get_image(data, empty_ok)
    ELSE Ret(None, "")

get_matrix_from_epicraw_bytes(data, empty_ok) ==
    IF Len(data) < 8 THEN Ret(None, "raised")
    ELSE IF FileType(data) = EpicRaw1 THEN EpicRaw1_get_camera_matrix(data, empty_ok)
    ELSE IF FileType(data) = EpicRaw2 THEN EpicRaw2_get_camera_matrix(data, empty_ok)
    ELSE Ret(None, "")

get_distortion_from_epicraw_bytes(data, empty_ok) ==
    IF Len(data) < 8 THEN Ret(None, "raised")
    ELSE IF FileType(data) = EpicRaw1 THEN EpicRaw1_get_distortion(data, empty_ok)
    ELSE IF FileType(data) = EpicRaw2 THEN EpicRaw2_get_distortion(data, empty_ok)
    ELSE Ret(None, "")

(***************************************************************************)
(* epicraw_parser: the point-cloud reconstructor                           *)
(* A depth map is a sequence of rows of floats, a lookup table a sequence  *)
(* of rows of pairs <<u, v>>, a point map a sequence of rows of triples.   *)
(***************************************************************************)
NaN3 == <<NaN, NaN, NaN>>

\* np.stack(np.meshgrid(range(0, w), range(0, h)), axis=2): meshgrid gives two
\* h x w arrays, the first holding the column index, the second the row index
Meshgrid(w, h) ==
    << [r \in 1..h |-> [c \in 1..w |-> F(c - 1)]],
       [r \in 1..h |-> [c \in 1..w |-> F(r - 1)]] >>

StackAxis2(grids, w, h) ==
    [r \in 1..h |-> [c \in 1..w |-> <<grids[1][r][c], grids[2][r][c]>>]]

\* the same with the two grids taken in the other order
IdentityLut_transposed(w, h) ==
    [r \in 1..h |-> [c \in 1..w |-> <<Meshgrid(w, h)[2][r][c], Meshgrid(w, h)[1][r][c]>>]]

IdentityLut(w, h) == StackAxis2(Meshgrid(w, h), w, h)

LutOrIdentity(undistort_lut, depth) ==
    IF undistort_lut = None THEN IdentityLut(MapW(depth), MapH(depth))
    ELSE undistort_lut

\* x = (u - matrix[0][2]) * depth / matrix[0][0], likewise y
CloudX(u, d, matrix) == FDiv(FMul(FSub(u, matrix[1][3]), d), matrix[1][1])

CloudY(v, d, matrix) == FDiv(FMul(FSub(v, matrix[2][3]), d), matrix[2][2])

\* one element of point_map after the two masked assignments;
\* this variant leaves out the second one
CloudPoint_no_far_limit(uv, d, matrix) ==
    IF FLt(d, Mk(1, 10)) THEN NaN3
    ELSE <<CloudX(uv[1], d, matrix), CloudY(uv[2], d, matrix), d>>

CloudPoint(uv, d, matrix) ==
    IF FLt(d, Mk(1, 10)) THEN NaN3
    ELSE IF FGt(d, F(6000)) THEN NaN3
    ELSE <<CloudX(uv[1], d, matrix), CloudY(uv[2], d, matrix), d>>

PointMap(depth, matrix, lut) ==
    [r \in 1..MapH(depth) |-> [c \in 1..MapW(depth) |->
        CloudPoint(lut[r][c], depth[r][c], matrix)]]

\* depth None ends in an AttributeError or TypeError
decode_point_cloud_from_depth(depth, matrix, undistort_lut) ==
    IF depth = None \/ matrix = None THEN Ret(None, "raised")
    ELSE Ret(PointMap(depth, matrix, LutOrIdentity(undistort_lut, depth)), "")

(***************************************************************************)
(* Values of the elements read by np.frombuffer (IEEE 754, little-endian). *)
(* Finite values are computed for the exponents named below, which cover   *)
(* the frames of the model; the low 32 mantissa bits of a float64 are      *)
(* required to be zero.                                                    *)
(***************************************************************************)
RECURSIVE Pow2(_)
Pow2(k) == IF k = 0 THEN 1 ELSE 2 * Pow2(k - 1)

FloatSign(top) == IF top >= 128 THEN -1 ELSE 1

\* sign * m * 2^k
Scaled(sign, m, k) ==
    IF k >= 0 THEN Mk(sign * m * Pow2(k), 1) ELSE Mk(sign * m, Pow2(-k))

Float32Exponent(b) == (b[4] % 128) * 2 + (b[3] \div 128)

Float32Mantissa(b) == (b[3] % 128) * 65536 + b[2] * 256 + b[1]

Float32Value(b) ==
    CASE Float32Exponent(b) = 255 /\ Float32Mantissa(b) = 0 -> <<FloatSign(b[4]), 0>>
      [] Float32Exponent(b) = 255 /\ Float32Mantissa(b) # 0 -> NaN
      [] Float32Exponent(b) = 0 /\ Float32Mantissa(b) = 0 -> F(0)
      [] Float32Exponent(b) \in 120..156 ->
            Scaled(FloatSign(b[4]), 8388608 + Float32Mantissa(b), Float32Exponent(b) - 150)

Float64Exponent(b) == (b[8] % 128) * 16 + (b[7] \div 16)

Float64MantissaHigh(b) == (b[7] % 16) * 65536 + b[6] * 256 + b[5]

Float64LowZero(b) == SubSeq(b, 1, 4) = <<0, 0, 0, 0>>

Float64Value(b) ==
    CASE Float64Exponent(b) = 2047 /\ Float64MantissaHigh(b) = 0 /\ Float64LowZero(b) ->
            <<FloatSign(b[8]), 0>>
      [] Float64Exponent(b) = 2047 /\ ~(Float64MantissaHigh(b) = 0 /\ Float64LowZero(b)) -> NaN
      [] Float64Exponent(b) = 0 /\ Float64MantissaHigh(b) = 0 /\ Float64LowZero(b) -> F(0)
      [] Float64Exponent(b) \in 1013..1053 /\ Float64LowZero(b) ->
            Scaled(FloatSign(b[8]), 1048576 + Float64MantissaHigh(b), Float64Exponent(b) - 1043)

\* the float32 array of shape (h, w) as a depth map
DepthValues(arr) ==
    [r \in 1..arr[1][1] |-> [c \in 1..arr[1][2] |->
        Float32Value(arr[2][(r - 1) * arr[1][2] + c])]]

\* the float64 array of shape (3, 3) as a matrix
MatrixValues(arr) ==
    [i \in 1..3 |-> [j \in 1..3 |-> Float64Value(arr[2][(i - 1) * 3 + j])]]

\* _decode_point_cloud_from_depth applied to the two decoded sections
PointCloudOf(depth_data, matrix, undistort_lut) ==
    IF depth_data.msg = "raised" \/ matrix.msg = "raised" THEN Ret(None, "raised")
    ELSE IF depth_data.result = None THEN Ret(None, "raised")
    ELSE decode_point_cloud_from_depth(DepthValues(depth_data.result),
                                       MatrixValues(matrix.result), undistort_lut)

decode_point_cloud_from_bytes(data, undistort_lut, empty_ok) ==
    IF Len(data) < 8 THEN Ret(None, "raised")
    ELSE IF FileType(data) = EpicRaw1
    THEN PointCloudOf(EpicRaw1_get_depth(data, empty_ok),
                      EpicRaw1_get_camera_matrix(data, empty_ok), undistort_lut)
    ELSE IF FileType(data) = EpicRaw2
    THEN PointCloudOf(EpicRaw2_get_depth(data, empty_ok),
                      EpicRaw2_get_camera_matrix(data, empty_ok), undistort_lut)
    ELSE Ret(None, "")

(***************************************************************************)
(* Frames handed to the decoder.  A frame is described by its sections and *)
(* laid out as the two header formats prescribe.                           *)
(***************************************************************************)
Zeros(k) == [i \in 1..k |-> 0]

\* struct format 'i' of a value -2^31 <= n < 2^31
Int32Bytes(n) ==
    IF n >= 0
    THEN <<n % 256, (n \div 256) % 256, (n \div 65536) % 256, n \div 16777216>>
    ELSE <<(n + 2147483647 + 1) % 256, ((n + 2147483647 + 1) \div 256) % 256,
           ((n + 2147483647 + 1) \div 65536) % 256,
           ((n + 2147483647 + 1) \div 16777216) + 128>>

\* "<8sii144s2i" followed by the depth and the image payload; the 144-byte
\* block holds the matrix (72), the distortion (40) and the parameters (32)
Frame1(s) ==
    s.tag \o Int32Bytes(s.width) \o Int32Bytes(s.height)
    \o s.matrix \o s.distortion \o Zeros(32)
    \o Int32Bytes(Len(s.depth)) \o Int32Bytes(Len(s.image))
    \o s.depth \o s.image

\* "<8s8i" followed by the five sections
Frame2(s) ==
    s.tag \o Int32Bytes(s.width) \o Int32Bytes(s.height) \o Int32Bytes(RGB48)
    \o Int32Bytes(Len(s.matrix)) \o Int32Bytes(Len(s.distortion))
    \o Int32Bytes(Len(s.config)) \o Int32Bytes(Len(s.depth))
    \o Int32Bytes(Len(s.image))
    \o s.matrix \o s.distortion \o s.config \o s.depth \o s.image

Encode(s) == IF s.layout = 1 THEN Frame1(s) ELSE Frame2(s)

MaxFrameW == 2

\* float64 words: 0.0, 1.0, 0.5, 240.0, 320.0, 800.0
W64(b7, b8) == <<0, 0, 0, 0, 0, 0, b7, b8>>

MatrixBytes ==
    W64(137, 64) \o W64(0, 0) \o W64(116, 64)
    \o W64(0, 0) \o W64(137, 64) \o W64(110, 64)
    \o W64(0, 0) \o W64(0, 0) \o W64(240, 63)

DistortionBytes == W64(224, 63) \o Zeros(32)

\* float32 words: 1000.0, 0.0625, the float below 0.1, 6001.0, NaN
DepthWords ==
    { <<0, 0, 122, 68>>, <<0, 0, 128, 61>>, <<204, 204, 204, 61>>,
      <<0, 136, 187, 69>>, <<0, 0, 192, 127>> }

RECURSIVE Repeat(_, _)
Repeat(word, n) == IF n = 0 THEN <<>> ELSE word \o Repeat(word, n - 1)

\* a depth payload: the word d at the first pixel, 1000.0 at the others
DepthBytes(d, n) == d \o Repeat(<<0, 0, 122, 68>>, n - 1)

\* an image payload of n bytes counting up from first
ImageBytes(first, n) == [i \in 1..n |-> (first + i) % 256]

Tag1 == TagStem \o <<49>>

Tag2 == TagStem \o <<50>>

TagStems == { TagStem, Zeros(7), <<88, 80, 73, 67, 82, 65, 87>> }

Tags == { stem \o <<last>> : stem \in TagStems, last \in {0, 49, 50, 51, 255} }

Section(layout, tag, w, matrix, distortion, config, depth, image) ==
    [layout |-> layout, tag |-> tag, width |-> w, height |-> 1,
     matrix |-> matrix, distortion |-> distortion, config |-> config,
     depth |-> depth, image |-> image]

DepthPayloads(w) == {<<>>} \cup { DepthBytes(d, w) : d \in DepthWords }

\* 8-bit pixels in the first format, 16-bit pixels in the second
ImagePayloads(layout, w) ==
    {<<>>} \cup { ImageBytes(first, 3 * w * layout) : first \in {0, 100} }

\* well-formed frames of the first format
Frames1 ==
    { Section(1, tag, w, MatrixBytes, distortion, <<>>, depth, image) :
        tag \in {Tag1, TagStem \o <<0>>}, w \in 1..MaxFrameW,
        distortion \in {Zeros(40), DistortionBytes},
        depth \in UNION { DepthPayloads(k) : k \in 1..MaxFrameW },
        image \in UNION { ImagePayloads(1, k) : k \in 1..MaxFrameW } }

\* frames of the second format, sections possibly of length zero
Frames2 ==
    { Section(2, Tag2, w, matrix, distortion, config, depth, image) :
        w \in 1..MaxFrameW, matrix \in {<<>>, MatrixBytes},
        distortion \in {<<>>, Zeros(40), DistortionBytes},
        config \in {<<>>, <<123, 125>>},
        depth \in UNION { DepthPayloads(k) : k \in 1..MaxFrameW },
        image \in UNION { ImagePayloads(2, k) : k \in 1..MaxFrameW } }

WellSized(s) ==
    /\ Len(s.depth) \in {0, 4 * s.width * s.height}
    /\ Len(s.image) \in {0, 3 * s.layout * s.width * s.height}

\* one full frame of either layout under every tag
TaggedFrames ==
    { Section(layout, tag, 1, MatrixBytes, Zeros(40), <<>>,
              DepthBytes(<<0, 0, 122, 68>>, 1), ImageBytes(0, 3 * layout)) :
        layout \in {1, 2}, tag \in Tags }

FrameSections ==
    { s \in Frames1 \cup Frames2 : WellSized(s) } \cup TaggedFrames

\* lengths at which a buffer is cut short of a tag or of a header
CutLengths == {0, 7, 8, 40, 167}

\* the buffer of a frame, and for the one-pixel frames under the two version
\* tags also its truncations
BuffersOf(s) ==
    IF s \in TaggedFrames /\ s.tag \in {Tag1, Tag2}
    THEN {Encode(s)} \cup { Slice(Encode(s), 0, n) : n \in CutLengths }
    ELSE {Encode(s)}

(***************************************************************************)
(* Inputs of the reconstructor                                             *)
(***************************************************************************)
MaxCloudW == 2

MaxCloudH == 2

CloudDepths ==
    { NaN, PInf, NInf, F(-5), F(0), Mk(1, 20), Mk(1, 10), F(1000), F(6000), F(6001) }

\* a w x h depth map of 1000 with the depth d at column p[1], row p[2]
CloudMap(w, h, p, d) ==
    [r \in 1..h |-> [c \in 1..w |-> IF <<c, r>> = p THEN d ELSE F(1000)]]

CloudMaps ==
    UNION { { CloudMap(w, h, p, d) : p \in (1..w) \X (1..h), d \in CloudDepths } :
            w \in 1..MaxCloudW, h \in 1..MaxCloudH }

\* a lookup table that moves every pixel by (1/2, 1/4)
ShiftedLut(w, h) ==
    [r \in 1..h |-> [c \in 1..w |-> <<Mk(2 * c - 1, 2), Mk(4 * r - 3, 4)>>]]

CloudLuts(depth) ==
    IF depth = None THEN {None}
    ELSE {None, ShiftedLut(MapW(depth), MapH(depth))}

(***************************************************************************)
(* Reconstructor and decoder calls                                         *)
(***************************************************************************)
DecodePointCloudFromDepth ==
    /\ call = Idle
    /\ \E depth \in CloudMaps \cup {None}, matrix \in {CamA, CamB} :
        \E undistort_lut \in CloudLuts(depth) :
            \E r \in {decode_point_cloud_from_depth(depth, matrix, undistort_lut)} :
                /\ call' = [op |-> "decode_point_cloud_from_depth", depth |-> depth,
                            matrix |-> matrix, undistort_lut |-> undistort_lut,
                            result |-> r.result, msg |-> r.msg]
                /\ UNCHANGED <<calib, calib_file>>

GetFileType ==
    /\ call = Idle
    /\ \E s \in FrameSections :
        \E data \in BuffersOf(s) :
            \E r \in {get_file_type(data)} :
                /\ call' = [op |-> "_get_file_type", frame |-> s, data |-> data,
                            result |-> r.result, msg |-> r.msg]
                /\ UNCHANGED <<calib, calib_file>>

GetDepthFromBytes ==
    /\ call = Idle
    /\ \E s \in FrameSections, empty_ok \in BOOLEAN :
        \E data \in BuffersOf(s) :
            \E r \in {get_depth_from_bytes(data, empty_ok)} :
                /\ call' = [op |-> "get_depth_from_bytes", frame |-> s, data |-> data,
                            result |-> r.result, msg |-> r.msg]
                /\ UNCHANGED <<calib, calib_file>>

GetImageFromEpicrawBytes ==
    /\ call = Idle
    /\ \E s \in FrameSections, empty_ok \in BOOLEAN :
        \E data \in BuffersOf(s) :
            \E r \in {get_image_from_epicraw_bytes(data, empty_ok)} :
                /\ call' = [op |-> "get_image_from_epicraw_bytes", frame |-> s, data |-> data,
                            result |-> r.result, msg |-> r.msg]
                /\ UNCHANGED <<calib, calib_file>>

GetMatrixFromEpicrawBytes ==
    /\ call = Idle
    /\ \E s \in FrameSections, empty_ok \in BOOLEAN :
        \E data \in BuffersOf(s) :
            \E r \in {get_matrix_from_epicraw_bytes(data, empty_ok)} :
                /\ call' = [op |-> "get_matrix_from_epicraw_bytes", frame |-> s, data |-> data,
                            result |-> r.result, msg |-> r.msg]
                /\ UNCHANGED <<calib, calib_file>>

GetDistortionFromEpicrawBytes ==
    /\ call = Idle
    /\ \E s \in FrameSections, empty_ok \in BOOLEAN :
        \E data \in BuffersOf(s) :
            \E r \in {get_distortion_from_epicraw_bytes(data, empty_ok)} :
                /\ call' = [op |-> "get_distortion_from_epicraw_bytes", frame |-> s, data |-> data,
                            result |-> r.result, msg |-> r.msg]
                /\ UNCHANGED <<calib, calib_file>>

\* the table handed over by get_point_cloud is absent here: the decoder builds
\* the identity table itself
DecodePointCloudFromBytes ==
    /\ call = Idle
    /\ \E s \in FrameSections, empty_ok \in BOOLEAN :
        \E data \in BuffersOf(s) :
            \E r \in {decode_point_cloud_from_bytes(data, None, empty_ok)} :
                /\ call' = [op |-> "decode_point_cloud_from_bytes", frame |-> s,
                            data |-> data, result |-> r.result, msg |-> r.msg]
                /\ UNCHANGED <<calib, calib_file>>

ParserNext ==
    \/ DecodePointCloudFromDepth
    \/ DecodePointCloudFromBytes
    \/ GetFileType
    \/ GetDepthFromBytes
    \/ GetImageFromEpicrawBytes
    \/ GetMatrixFromEpicrawBytes
    \/ GetDistortionFromEpicrawBytes
    \/ Return

ParserSpec == Init /\ [][ParserNext]_vars

(***************************************************************************)
(* CameraCalibration: calibration from chessboard images                   *)
(* An image is [name, shape, board]: its identity, its (height, width) and *)
(* whether OpenCV finds the chessboard in it.  The corners found in an     *)
(* image are named after the image.  A call's outcome is [result, msg]     *)
(* with result the returned flag and msg the kind of the returned message; *)
(* msg "raised" stands for an exception leaving the call.                  *)
(***************************************************************************)
Image(name, shape, board) == [name |-> name, shape |-> shape, board |-> board]

\* corners returned by cornerSubPix for the image
Corners(image) == <<image.name>>

\* (ret, corners)
detect_chessboard(image) ==
    IF image.board THEN <<TRUE, Corners(image)>> ELSE <<FALSE, None>>

\* np.mgrid[0:cols, 0:rows]: shape (2, cols, rows)
Mgrid(cols, rows) ==
    [c \in 1..2 |-> [i \in 1..cols |-> [j \in 1..rows |-> IF c = 1 THEN i - 1 ELSE j - 1]]]

\* the elements of np.mgrid[0:cols, 0:rows] in row-major order, untransposed
MgridFlat_untransposed(cols, rows) ==
    [f \in 1..(2 * cols * rows) |->
        Mgrid(cols, rows)[((f - 1) \div (cols * rows)) + 1]
                         [(((f - 1) \div rows) % cols) + 1]
                         [((f - 1) % rows) + 1]]

\* the elements of np.mgrid[0:cols, 0:rows].T, of shape (rows, cols, 2), in
\* row-major order
MgridFlat(cols, rows) ==
    [f \in 1..(2 * cols * rows) |->
        Mgrid(cols, rows)[((f - 1) % 2) + 1]
                         [(((f - 1) \div 2) % cols) + 1]
                         [((f - 1) \div (2 * cols)) + 1]]

\* .reshape(-1, 2)
ReshapePairs(flat) == [k \in 1..(Len(flat) \div 2) |-> <<flat[2 * k - 1], flat[2 * k]>>]

\* objp: zeros((cols * rows, 3)) with the first two columns set, times square_size
ObjectPoints(pattern_size, square_size) ==
    [k \in 1..(pattern_size[1] * pattern_size[2]) |->
        << FMul(F(ReshapePairs(MgridFlat(pattern_size[1], pattern_size[2]))[k][1]), square_size),
           FMul(F(ReshapePairs(MgridFlat(pattern_size[1], pattern_size[2]))[k][2]), square_size),
           FMul(F(0), square_size) >>]

NoLists == [objpoints |-> <<>>, imgpoints1 |-> <<>>, imgpoints2 |-> <<>>, success_count |-> 0]

\* one pass of the loop body in which each camera's corners are appended on
\* that camera's own detection
LoopStep_unpaired(lists, pair, objp) ==
    [objpoints |-> IF detect_chessboard(pair[1])[1] /\ detect_chessboard(pair[2])[1]
                   THEN Append(lists.objpoints, objp) ELSE lists.objpoints,
     imgpoints1 |-> IF detect_chessboard(pair[1])[1]
                    THEN Append(lists.imgpoints1, detect_chessboard(pair[1])[2])
                    ELSE lists.imgpoints1,
     imgpoints2 |-> IF detect_chessboard(pair[2])[1]
                    THEN Append(lists.imgpoints2, detect_chessboard(pair[2])[2])
                    ELSE lists.imgpoints2,
     success_count |-> IF detect_chessboard(pair[1])[1] /\ detect_chessboard(pair[2])[1]
                       THEN lists.success_count + 1 ELSE lists.success_count]

\* one pass of the loop body
LoopStep(lists, pair, objp) ==
    IF detect_chessboard(pair[1])[1] /\ detect_chessboard(pair[2])[1]
    THEN [objpoints |-> Append(lists.objpoints, objp),
          imgpoints1 |-> Append(lists.imgpoints1, detect_chessboard(pair[1])[2]),
          imgpoints2 |-> Append(lists.imgpoints2, detect_chessboard(pair[2])[2]),
          success_count |-> lists.success_count + 1]
    ELSE lists

\* the three lists and the count after the first n image pairs
RECURSIVE DetectionLoop(_, _, _)
DetectionLoop(image_pairs, objp, n) ==
    IF n = 0 THEN NoLists
    ELSE LoopStep(DetectionLoop(image_pairs, objp, n - 1), image_pairs[n], objp)

\* what a calibration call leaves behind: the returned flag, the kind of the
\* returned message, the reprojection error the message quotes (None when it
\* quotes none), the five fields of the object afterwards, and the lists
\* built for OpenCV (None when the call returned before building them)
Outcome(result, msg, error, fields, lists) ==
    [result |-> result, msg |-> msg, error |-> error, calib |-> fields, lists |-> lists]

Failure(msg, fields, lists) == Outcome(FALSE, msg, None, fields, lists)

Raised(fields, lists) == Outcome(None, "raised", None, fields, lists)

\* f"{ret:.4f}" of a finite ret >= 0: the nearest multiple of 1/10000
Format4(ret) ==
    IF 2 * ((ret[1] * 10000) % ret[2]) > ret[2]
       \/ (2 * ((ret[1] * 10000) % ret[2]) = ret[2] /\ ((ret[1] * 10000) \div ret[2]) % 2 = 1)
    THEN Mk(((ret[1] * 10000) \div ret[2]) + 1, 10000)
    ELSE Mk((ret[1] * 10000) \div ret[2], 10000)

\* cv2.stereoCalibrate with the pose stored before ret is tested
StereoCalibrate_stores_before_test(fields, lists, K1, dist1, K2, dist2, libs, keeps_intrinsics) ==
    IF libs.raised THEN Failure("exception", fields, lists)
    ELSE IF libs.ret = F(0)
    THEN Failure("stereo_failed",
                 <<PoseMatrix(libs.R, libs.T), fields[2], fields[3], fields[4], fields[5]>>,
                 lists)
    ELSE Outcome(TRUE, "success", Format4(libs.ret),
                 IF keeps_intrinsics
                 THEN <<PoseMatrix(libs.R, libs.T), K1, dist1, K2, dist2>>
                 ELSE <<PoseMatrix(libs.R, libs.T), fields[2], fields[3], fields[4], fields[5]>>,
                 lists)

\* cv2.stereoCalibrate under CALIB_FIX_INTRINSIC; libs is what OpenCV does:
\* it raises, or returns the error ret with the rotation R and translation T
StereoCalibrate(fields, lists, K1, dist1, K2, dist2, libs, keeps_intrinsics) ==
    IF libs.raised THEN Failure("exception", fields, lists)
    ELSE IF libs.ret = F(0) THEN Failure("stereo_failed", fields, lists)
    ELSE Outcome(TRUE, "success", Format4(libs.ret),
                 IF keeps_intrinsics
                 THEN <<PoseMatrix(libs.R, libs.T), K1, dist1, K2, dist2>>
                 ELSE <<PoseMatrix(libs.R, libs.T), fields[2], fields[3], fields[4], fields[5]>>,
                 lists)

DistOrZeros(dist) == IF dist = None THEN DistZero ELSE dist

\* success_count < 3 with the limit lowered to 2
TooFewPairs_two(success_count) == success_count < 2

TooFewPairs(success_count) == success_count < 3

\* the part of calibrate_with_multiple_images after the detection loop
MultiAfterLoop(fields, lists, K1, K2, dist1, dist2, libs) ==
    IF lists.success_count = 0 THEN Failure("no_detection", fields, lists)
    ELSE IF TooFewPairs(lists.success_count) THEN Failure("too_few_pairs", fields, lists)
    ELSE StereoCalibrate(fields, lists, K1, DistOrZeros(dist1), K2, DistOrZeros(dist2),
                         libs, FALSE)

calibrate_with_multiple_images(fields, image_pairs, pattern_size, square_size, K1, K2, dist1, dist2, libs) ==
    IF Len(image_pairs) = 0 THEN Failure("no_pairs", fields, None)
    ELSE IF K1 = None \/ K2 = None THEN Failure("need_intrinsics", fields, None)
    ELSE MultiAfterLoop(fields,
                        DetectionLoop(image_pairs, ObjectPoints(pattern_size, square_size),
                                      Len(image_pairs)),
                        K1, K2, dist1, dist2, libs)

\* a camera matrix argument is a 3x3 array, or a flat list of floats
MatrixNdim(K) == IF Len(K[1]) = 2 THEN 1 ELSE 2

Is3x3(K) == Len(K) = 3 /\ \A i \in 1..3 : Len(K[i]) = 3

\* the outcome of preparing one camera's intrinsics: msg "" with the matrix
\* and the distortion, or the kind of failure
Intrinsics(msg, matrix, dist) == [msg |-> msg, matrix |-> matrix, dist |-> dist]

\* a supplied matrix: a flat list of 9 is reshaped, anything not 3x3 refused
GivenIntrinsics(K, dist) ==
    IF MatrixNdim(K) = 1
    THEN (IF Len(K) = 9
          THEN Intrinsics("", <<SubSeq(K, 1, 3), SubSeq(K, 4, 6), SubSeq(K, 7, 9)>>,
                          DistOrZeros(dist))
          ELSE Intrinsics("matrix_format", None, None))
    ELSE IF ~Is3x3(K) THEN Intrinsics("matrix_shape", None, None)
    ELSE Intrinsics("", K, DistOrZeros(dist))

\* camera 1 unknown: cv2.calibrateCamera(..., None, None, CALIB_FIX_PRINCIPAL_POINT);
\* lib is what OpenCV does: it raises, or returns ret, a matrix and a distortion
EstimateCamera1(lib) ==
    IF lib.raised THEN Intrinsics("raised", None, None)
    ELSE IF lib.ret = F(0) THEN Intrinsics("mono_failed", None, None)
    ELSE Intrinsics("", lib.matrix, lib.dist)

ImageW(image) == image.shape[2]

ImageH(image) == image.shape[1]

\* camera_matrix_init
InitialGuess(w, h) ==
    << <<Mk(IMax(w, h) * 8, 10), F(0), Mk(w, 2)>>,
       <<F(0), Mk(IMax(w, h) * 8, 10), Mk(h, 2)>>,
       <<F(0), F(0), F(1)>> >>

FocalOutOfRange(K, w, h) ==
    \/ FLt(K[1][1], Mk(w * 3, 10))
    \/ FGt(K[1][1], F(w * 3))
    \/ FLt(K[2][2], Mk(h * 3, 10))
    \/ FGt(K[2][2], F(h * 3))

PrincipalPointOutside(K, w, h) ==
    \/ FLt(K[1][3], F(0))
    \/ FGt(K[1][3], F(w))
    \/ FLt(K[2][3], F(0))
    \/ FGt(K[2][3], F(h))

FocalTooLarge(K, w, h) == FGt(K[1][1], F(w * 10)) \/ FGt(K[2][2], F(h * 10))

\* camera2_matrix[0, 2] = cx_init; camera2_matrix[1, 2] = cy_init
WithPrincipalPoint(K, cx, cy) ==
    << <<K[1][1], K[1][2], cx>>, <<K[2][1], K[2][2], cy>>, K[3] >>

\* what camera_matrix_init holds after the call: OpenCV may have written its
\* result into the array it was given as the guess
GuessAfter(w, h, current, in_place) == IF in_place THEN current ELSE InitialGuess(w, h)

\* the checks of the optimized matrix, first the if / elif
FirstCheck(matrix, dist, w, h, in_place) ==
    IF FocalOutOfRange(matrix, w, h)
    THEN Intrinsics("", GuessAfter(w, h, matrix, in_place), DistZero)
    ELSE IF PrincipalPointOutside(matrix, w, h)
    THEN Intrinsics("", WithPrincipalPoint(matrix, Mk(w, 2), Mk(h, 2)), dist)
    ELSE Intrinsics("", matrix, dist)

\* then the last if
SecondCheck(c, w, h, in_place) ==
    IF FocalTooLarge(c.matrix, w, h)
    THEN Intrinsics("", GuessAfter(w, h, c.matrix, in_place), DistZero)
    ELSE c

\* camera 2 unknown: cv2.calibrateCamera seeded with camera_matrix_init under
\* CALIB_USE_INTRINSIC_GUESS, then the checks
EstimateCamera2(image2, lib) ==
    IF lib.raised THEN Intrinsics("raised", None, None)
    ELSE IF lib.ret = F(0) THEN Intrinsics("mono_failed", None, None)
    ELSE SecondCheck(FirstCheck(lib.matrix, lib.dist, ImageW(image2), ImageH(image2),
                                lib.in_place),
                     ImageW(image2), ImageH(image2), lib.in_place)

Camera1Intrinsics(K1, dist1, lib1) ==
    IF K1 = None THEN EstimateCamera1(lib1) ELSE GivenIntrinsics(K1, dist1)

Camera2Intrinsics(image2, K2, dist2, lib2) ==
    IF K2 = None THEN EstimateCamera2(image2, lib2) ELSE GivenIntrinsics(K2, dist2)

FocalInvalid(K) == FLe(K[1][1], F(0)) \/ FLe(K[2][2], F(0))

\* objpoints, imgpoints1, imgpoints2 of the single pair
SingleLists(image1, image2, pattern_size, square_size) ==
    [objpoints |-> <<ObjectPoints(pattern_size, square_size)>>,
     imgpoints1 |-> <<detect_chessboard(image1)[2]>>,
     imgpoints2 |-> <<detect_chessboard(image2)[2]>>,
     success_count |-> 1]

\* the part of calibrate_with_chessboard after both intrinsics are prepared
SingleAfterIntrinsics(fields, lists, c1, c2, libs) ==
    IF c1.msg = "raised" THEN Raised(fields, lists)
    ELSE IF c1.msg # "" THEN Failure(c1.msg, fields, lists)
    ELSE IF c2.msg = "raised" THEN Raised(fields, lists)
    ELSE IF c2.msg # "" THEN Failure(c2.msg, fields, lists)
    ELSE IF FocalInvalid(c1.matrix) THEN Failure("focal_invalid", fields, lists)
    ELSE IF FocalInvalid(c2.matrix) THEN Failure("focal_invalid", fields, lists)
    ELSE StereoCalibrate(fields, lists, c1.matrix, c1.dist, c2.matrix, c2.dist, libs, TRUE)

calibrate_with_chessboard(fields, image1, image2, pattern_size, square_size, K1, K2, dist1, dist2, lib1, lib2, libs) ==
    IF ~detect_chessboard(image1)[1] THEN Failure("no_board", fields, None)
    ELSE IF ~detect_chessboard(image2)[1] THEN Failure("no_board", fields, None)
    ELSE SingleAfterIntrinsics(fields,
                               SingleLists(image1, image2, pattern_size, square_size),
                               Camera1Intrinsics(K1, dist1, lib1),
                               Camera2Intrinsics(image2, K2, dist2, lib2), libs)

(***************************************************************************)
(* Inputs of the calibration calls and the outcomes of the OpenCV calls    *)
(***************************************************************************)
MaxPairs == 4

\* (height, width) of every image
ImageShape == <<480, 640>>

PatternSizes == { <<3, 2>>, <<2, 3>> }

SquareSizes == { F(25) }

\* the images of the n-th pair: found[1], found[2] tell where the board is found
ImagePair(n, found) ==
    << Image(<<n, 1>>, ImageShape, found[1]), Image(<<n, 2>>, ImageShape, found[2]) >>

ImagePairLists ==
    UNION { { [n \in 1..len |-> ImagePair(n, found[n])] :
                found \in [1..len -> BOOLEAN \X BOOLEAN] } : len \in 0..MaxPairs }

\* a camera matrix with fractional entries
CameraMatrixQ(fx, fy, cx, cy) ==
    << <<fx, F(0), cx>>, <<F(0), fy, cy>>, <<F(0), F(0), F(1)>> >>

\* CamA as a flat list of nine numbers, and a list of four
FlatCamA == CamA[1] \o CamA[2] \o CamA[3]

ShortList == <<F(800), F(800), F(320), F(240)>>

GivenMatrices1 == { CamA, FlatCamA, ShortList, CamSingular }

GivenMatrices2 == { CamA, CamB }

\* an OpenCV call that was not made
NotCalled == [raised |-> FALSE, called |-> FALSE]

LibRaised == [raised |-> TRUE]

\* cv2.calibrateCamera for camera 1: the principal point stays at the centre
MonoResult1(ret, fx, fy) ==
    [raised |-> FALSE, ret |-> ret,
     matrix |-> CameraMatrixQ(F(fx), F(fy), Mk(639, 2), Mk(479, 2)), dist |-> DistRadial]

MonoResults1 ==
    { LibRaised, MonoResult1(F(0), 600, 600), MonoResult1(Mk(1, 2), 600, 600),
      MonoResult1(Mk(1, 2), 100, 600) }

\* cv2.calibrateCamera for camera 2
MonoResult2(fx, fy, cx, cy, in_place) ==
    [raised |-> FALSE, ret |-> Mk(1, 2), matrix |-> CameraMatrix(fx, fy, cx, cy),
     dist |-> DistRadial, in_place |-> in_place]

MonoResults2 ==
    { LibRaised, [raised |-> FALSE, ret |-> F(0)], MonoResult2(600, 600, 330, 250, TRUE) }
    \cup { MonoResult2(100, 600, 330, 250, in_place) : in_place \in BOOLEAN }
    \cup { MonoResult2(600, 600, 700, 250, in_place) : in_place \in BOOLEAN }

\* cv2.stereoCalibrate
StereoResult(ret, R, T) == [raised |-> FALSE, ret |-> ret, R |-> R, T |-> T]

StereoResults ==
    { LibRaised, StereoResult(F(0), Identity3, <<100, 0, 0>>),
      StereoResult(Mk(1, 3), Identity3, <<100, 0, 0>>),
      StereoResult(F(50), RotY180, <<0, 0, 2000>>) }

\* an OpenCV outcome is kept in the record of a call only if the call was made
IfCalled(called, lib) == IF called THEN lib ELSE NotCalled

StereoCalled(r) == r.msg \in {"success", "stereo_failed", "exception"}

(***************************************************************************)
(* Calibration calls                                                       *)
(***************************************************************************)
BothDetected(image1, image2) ==
    detect_chessboard(image1)[1] /\ detect_chessboard(image2)[1]

\* the arguments for one camera with the outcome of its estimation:
\* <<matrix, distortion, outcome of cv2.calibrateCamera>>
Camera1Choices ==
    { <<None, None, lib>> : lib \in MonoResults1 }
    \cup { <<K, None, NotCalled>> : K \in GivenMatrices1 }
    \cup { <<CamA, DistRadial, NotCalled>> }

Camera2Choices ==
    { <<None, None, lib>> : lib \in MonoResults2 }
    \cup { <<K, None, NotCalled>> : K \in GivenMatrices2 }

CalibrateWithChessboard ==
    /\ call = Idle
    /\ \E found \in (BOOLEAN \X BOOLEAN) \ {<<FALSE, FALSE>>},
          pattern_size \in PatternSizes, square_size \in SquareSizes,
          c1 \in Camera1Choices, c2 \in Camera2Choices, libs \in StereoResults :
        \E pair \in {ImagePair(1, found)} :
            \E r \in {calibrate_with_chessboard(calib, pair[1], pair[2], pattern_size,
                                                square_size, c1[1], c2[1], c1[2], c2[2],
                                                c1[3], c2[3], libs)} :
                /\ call' = [op |-> "calibrate_with_chessboard",
                            image1 |-> pair[1], image2 |-> pair[2],
                            pattern_size |-> pattern_size, square_size |-> square_size,
                            K1 |-> c1[1], K2 |-> c2[1], dist1 |-> c1[2], dist2 |-> c2[2],
                            lib1 |-> IfCalled(BothDetected(pair[1], pair[2]), c1[3]),
                            lib2 |-> IfCalled(/\ BothDetected(pair[1], pair[2])
                                              /\ Camera1Intrinsics(c1[1], c1[2], c1[3]).msg = "",
                                              c2[3]),
                            libs |-> IfCalled(StereoCalled(r), libs),
                            before |-> calib,
                            result |-> r.result, msg |-> r.msg, error |-> r.error,
                            lists |-> r.lists]
                /\ extrinsic_matrix' = r.calib[1]
                /\ camera1_matrix' = r.calib[2]
                /\ camera1_distortion' = r.calib[3]
                /\ camera2_matrix' = r.calib[4]
                /\ camera2_distortion' = r.calib[5]
                /\ UNCHANGED calib_file

CalibrateWithMultipleImages ==
    /\ call = Idle
    /\ \E image_pairs \in ImagePairLists,
          pattern_size \in PatternSizes, square_size \in SquareSizes,
          K \in { <<None, CamA>>, <<CamA, None>>, <<CamA, CamB>> },
          libs \in StereoResults :
        \E r \in {calibrate_with_multiple_images(calib, image_pairs, pattern_size,
                                                 square_size, K[1], K[2], None, None,
                                                 libs)} :
            /\ call' = [op |-> "calibrate_with_multiple_images",
                        image_pairs |-> image_pairs,
                        pattern_size |-> pattern_size, square_size |-> square_size,
                        K1 |-> K[1], K2 |-> K[2], dist1 |-> None, dist2 |-> None,
                        libs |-> IfCalled(StereoCalled(r), libs),
                        before |-> calib,
                        result |-> r.result, msg |-> r.msg, error |-> r.error,
                        lists |-> r.lists]
            /\ extrinsic_matrix' = r.calib[1]
            /\ camera1_matrix' = r.calib[2]
            /\ camera1_distortion' = r.calib[3]
            /\ camera2_matrix' = r.calib[4]
            /\ camera2_distortion' = r.calib[5]
            /\ UNCHANGED calib_file

CalibrationNext ==
    \/ CalibrateWithChessboard
    \/ CalibrateWithMultipleImages
    \/ Return

\* a new object with no calibration file at hand
CalibrationInit ==
    /\ Init
    /\ calib_file = NoFile

CalibrationSpec == CalibrationInit /\ [][CalibrationNext]_vars

(***************************************************************************)
(* The life of a calibration object: construction, calibration, loading,   *)
(* saving and the transform and query calls, in any order.  The calls take *)
(* their arguments from small sets so that every order of calls is reached. *)
(***************************************************************************)
\* a 4x4 pose record whose bottom row is not [0, 0, 0, 1]
PoseBadRow == << PoseShift[1], PoseShift[2], PoseShift[3], <<F(0), F(0), F(0), F(0)>> >>

\* the documents load_calibration may be pointed at: written by an earlier
\* run of the program, or by hand
LifecycleFiles ==
    {NoFile, CorruptFile,
     FileOf([camera1_matrix |-> CamA]),
     FileOf(Doc(PoseShift, {"camera1_matrix", "camera1_distortion",
                            "camera2_matrix", "camera2_distortion"})),
     FileOf(Doc(PoseLeft, {"camera1_matrix"})),
     FileOf(Doc(PoseBadRow, {}))}

\* CameraCalibration(): a new object takes the place of the old one
NewCameraCalibration ==
    /\ call = Idle
    /\ extrinsic_matrix' = None
    /\ camera1_matrix' = None
    /\ camera1_distortion' = None
    /\ camera2_matrix' = None
    /\ camera2_distortion' = None
    /\ call' = [op |-> "__init__"]
    /\ UNCHANGED calib_file

DetectChessboard ==
    /\ call = Idle
    /\ \E board \in BOOLEAN :
        \E image \in {Image(<<1, 1>>, ImageShape, board)} :
            /\ call' = [op |-> "detect_chessboard", image |-> image,
                        result |-> detect_chessboard(image)[1],
                        corners |-> detect_chessboard(image)[2]]
            /\ UNCHANGED <<calib, calib_file>>

\* the calibration calls of the lifecycle: the board found in both images or
\* in the first only; camera 1 given, estimated or malformed; camera 2 given
\* or estimated; the optimizer raising, failing or succeeding
LifecycleCamera1 ==
    { <<CamA, None, NotCalled>>, <<ShortList, None, NotCalled>>,
      <<None, None, MonoResult1(Mk(1, 2), 600, 600)>> }

LifecycleCamera2 ==
    { <<CamB, None, NotCalled>>, <<None, None, MonoResult2(600, 600, 330, 250, TRUE)>> }

LifecycleStereo ==
    { LibRaised, StereoResult(F(0), Identity3, <<100, 0, 0>>),
      StereoResult(F(50), RotY180, <<0, 0, 2000>>) }

LifecycleCalibrateWithChessboard ==
    /\ call = Idle
    /\ \E found \in {<<TRUE, TRUE>>, <<TRUE, FALSE>>},
          c1 \in LifecycleCamera1, c2 \in LifecycleCamera2, libs \in LifecycleStereo :
        \E pair \in {ImagePair(1, found)} :
            \E r \in {calibrate_with_chessboard(calib, pair[1], pair[2], <<3, 2>>, F(25),
                                                c1[1], c2[1], c1[2], c2[2],
                                                c1[3], c2[3], libs)} :
                /\ call' = [op |-> "calibrate_with_chessboard",
                            image1 |-> pair[1], image2 |-> pair[2],
                            pattern_size |-> <<3, 2>>, square_size |-> F(25),
                            K1 |-> c1[1], K2 |-> c2[1], dist1 |-> c1[2], dist2 |-> c2[2],
                            lib1 |-> IfCalled(BothDetected(pair[1], pair[2]), c1[3]),
                            lib2 |-> IfCalled(/\ BothDetected(pair[1], pair[2])
                                              /\ Camera1Intrinsics(c1[1], c1[2], c1[3]).msg = "",
                                              c2[3]),
                            libs |-> IfCalled(StereoCalled(r), libs),
                            before |-> calib,
                            result |-> r.result, msg |-> r.msg, error |-> r.error,
                            lists |-> r.lists]
                /\ extrinsic_matrix' = r.calib[1]
                /\ camera1_matrix' = r.calib[2]
                /\ camera1_distortion' = r.calib[3]
                /\ camera2_matrix' = r.calib[4]
                /\ camera2_distortion' = r.calib[5]
                /\ UNCHANGED calib_file

\* image pair lists of the lifecycle: none, two pairs and three pairs with
\* the board found in every image
LifecyclePairLists ==
    { [n \in 1..len |-> ImagePair(n, <<TRUE, TRUE>>)] : len \in {0, 2, 3} }

LifecycleCalibrateWithMultipleImages ==
    /\ call = Idle
    /\ \E image_pairs \in LifecyclePairLists,
          K \in { <<None, CamA>>, <<CamA, CamA>> }, libs \in LifecycleStereo :
        \E r \in {calibrate_with_multiple_images(calib, image_pairs, <<3, 2>>, F(25),
                                                 K[1], K[2], None, None, libs)} :
            /\ call' = [op |-> "calibrate_with_multiple_images",
                        image_pairs |-> image_pairs,
                        pattern_size |-> <<3, 2>>, square_size |-> F(25),
                        K1 |-> K[1], K2 |-> K[2], dist1 |-> None, dist2 |-> None,
                        libs |-> IfCalled(StereoCalled(r), libs),
                        before |-> calib,
                        result |-> r.result, msg |-> r.msg, error |-> r.error,
                        lists |-> r.lists]
            /\ extrinsic_matrix' = r.calib[1]
            /\ camera1_matrix' = r.calib[2]
            /\ camera1_distortion' = r.calib[3]
            /\ camera2_matrix' = r.calib[4]
            /\ camera2_distortion' = r.calib[5]
            /\ UNCHANGED calib_file

\* the transform calls of the lifecycle: one pixel, one rectangle, camera
\* matrices CamA and CamB, no distortion, a depth that is valid or missing
LifecycleDepthMap == [v \in 1..MaxMapH |-> [u \in 1..MaxMapW |-> F(1000)]]

\* transform_point keeping the intrinsics it was given as the cached ones
LifecycleTransformPoint_caching_intrinsics ==
    /\ call = Idle
    /\ \E depth \in {None, F(1000)} :
        \E r \in {transform_point(extrinsic_matrix, <<F(400), F(300)>>, CamA, CamB,
                                  None, None, depth)} :
            /\ call' = [op |-> "transform_point", point |-> <<F(400), F(300)>>,
                        K1 |-> CamA, K2 |-> CamB, dist1 |-> None, dist2 |-> None,
                        depth |-> depth, lib |-> NoLib,
                        result |-> r.result, msg |-> r.msg]
            /\ camera1_matrix' = CamA
            /\ camera2_matrix' = CamB
            /\ UNCHANGED <<extrinsic_matrix, camera1_distortion, camera2_distortion,
                           calib_file>>

LifecycleTransformPoint ==
    /\ call = Idle
    /\ \E depth \in {None, F(1000)} :
        \E r \in {transform_point(extrinsic_matrix, <<F(400), F(300)>>, CamA, CamB,
                                  None, None, depth)} :
            /\ call' = [op |-> "transform_point", point |-> <<F(400), F(300)>>,
                        K1 |-> CamA, K2 |-> CamB, dist1 |-> None, dist2 |-> None,
                        depth |-> depth, lib |-> NoLib,
                        result |-> r.result, msg |-> r.msg]
            /\ UNCHANGED <<calib, calib_file>>

LifecycleTransformPointWithProjectpoints ==
    /\ call = Idle
    /\ \E depth \in {None, F(1000)} :
        \E r \in {transform_point_with_projectpoints(
                      extrinsic_matrix, <<F(400), F(300)>>, CamA, CamB,
                      None, DistZero, depth, NoLib)} :
            /\ call' = [op |-> "transform_point_with_projectpoints",
                        point |-> <<F(400), F(300)>>, K1 |-> CamA, K2 |-> CamB,
                        dist1 |-> None, dist2 |-> DistZero,
                        depth |-> depth, lib |-> NoLib,
                        result |-> r.result, msg |-> r.msg]
            /\ UNCHANGED <<calib, calib_file>>

LifecycleTransformRoi ==
    /\ call = Idle
    /\ \E depth_map \in {None, LifecycleDepthMap} :
        \E r \in {transform_roi(extrinsic_matrix, <<0, 0, 1, 1>>, CamA, CamB, None, None,
                                depth_map, <<NoLib, NoLib, NoLib, NoLib>>)} :
            /\ call' = [op |-> "transform_roi", roi |-> <<0, 0, 1, 1>>,
                        K1 |-> CamA, K2 |-> CamB, dist1 |-> None, dist2 |-> None,
                        depth_map |-> depth_map, lib |-> NoLib,
                        result |-> r.result, msg |-> r.msg]
            /\ UNCHANGED <<calib, calib_file>>

LifecycleComputeHomography ==
    /\ call = Idle
    /\ \E plane_depth \in {F(0), F(1000)} :
        \E r \in {compute_homography_from_extrinsic(
                      extrinsic_matrix, CamA, CamB, plane_depth, None)} :
            /\ call' = [op |-> "compute_homography_from_extrinsic",
                        K1 |-> CamA, K2 |-> CamB, plane_depth |-> plane_depth,
                        plane_normal |-> None,
                        result |-> r.result, msg |-> r.msg]
            /\ UNCHANGED <<calib, calib_file>>

LifecycleTransformRoiPlanar ==
    /\ call = Idle
    /\ \E plane_depth \in {F(0), F(1000)} :
        \E r \in {transform_roi_planar(extrinsic_matrix, <<0, 0, 1, 1>>, CamA, CamB,
                                       plane_depth, None, None, NoLib)} :
            /\ call' = [op |-> "transform_roi_planar", roi |-> <<0, 0, 1, 1>>,
                        K1 |-> CamA, K2 |-> CamB, plane_depth |-> plane_depth,
                        dist1 |-> None, lib |-> NoLib,
                        result |-> r.result, msg |-> r.msg]
            /\ UNCHANGED <<calib, calib_file>>

LifecycleNext ==
    \/ NewCameraCalibration
    \/ LoadCalibration
    \/ SaveCalibration
    \/ IsCalibrated
    \/ DetectChessboard
    \/ LifecycleCalibrateWithChessboard
    \/ LifecycleCalibrateWithMultipleImages
    \/ LifecycleTransformPoint
    \/ LifecycleTransformPointWithProjectpoints
    \/ LifecycleTransformRoi
    \/ LifecycleComputeHomography
    \/ LifecycleTransformRoiPlanar
    \/ Return

LifecycleInit ==
    /\ extrinsic_matrix = None
    /\ camera1_matrix = None
    /\ camera1_distortion = None
    /\ camera2_matrix = None
    /\ camera2_distortion = None
    /\ calib_file \in LifecycleFiles
    /\ call = Idle

LifecycleSpec == LifecycleInit /\ [][LifecycleNext]_vars

(***************************************************************************)
(* A calibration run and transform calls on the same object in two threads *)
(* The field call holds both threads: the writer is inside                 *)
(* calibrate_with_chessboard, at one of the statements that store the      *)
(* result; the reader fetches the cached intrinsics and distortion as      *)
(* test_transform does and then makes transform calls one after the other, *)
(* each reading the pose.  A thread switch can happen between any two      *)
(* statements.  When serialized, the callers hold a lock around the        *)
(* calibration run and around the reader's fetches and transform calls.    *)
(***************************************************************************)
\* transform calls the reader makes
MaxReads == 3

\* np.eye(4)
IdentityPose == PoseMatrix(Identity3, <<0, 0, 0>>)

\* self.extrinsic_matrix[:3, :3] = R, with R the rotation of pose
WithRotation(ext, pose) ==
    [i \in 1..4 |-> IF i <= 3 THEN <<pose[i][1], pose[i][2], pose[i][3], ext[i][4]>>
                    ELSE ext[i]]

\* the translation written into the bottom row
WithTranslation_as_row(ext, pose) ==
    [i \in 1..4 |-> IF i = 4 THEN <<pose[1][4], pose[2][4], pose[3][4], ext[4][4]>>
                    ELSE ext[i]]

\* self.extrinsic_matrix[:3, 3] = T.flatten(), with T the translation of pose
WithTranslation(ext, pose) ==
    [i \in 1..4 |-> IF i <= 3 THEN <<ext[i][1], ext[i][2], ext[i][3], pose[i][4]>>
                    ELSE ext[i]]

\* the statements of a successful run that store its result, in order
WriterStatements ==
    << "eye", "rotation", "translation", "camera1_matrix", "camera1_distortion",
       "camera2_matrix", "camera2_distortion", "done" >>

NextStatement(pc) ==
    WriterStatements[(CHOOSE k \in 1..7 : WriterStatements[k] = pc) + 1]

\* the five fields after the statement pc of a run whose result is new
StoreStatement(pc, fields, new) ==
    CASE pc = "eye" -> <<IdentityPose, fields[2], fields[3], fields[4], fields[5]>>
      [] pc = "rotation" ->
             <<WithRotation(fields[1], new[1]), fields[2], fields[3], fields[4], fields[5]>>
      [] pc = "translation" ->
             <<WithTranslation(fields[1], new[1]), fields[2], fields[3], fields[4], fields[5]>>
      [] pc = "camera1_matrix" -> <<fields[1], new[2], fields[3], fields[4], fields[5]>>
      [] pc = "camera1_distortion" -> <<fields[1], fields[2], new[3], fields[4], fields[5]>>
      [] pc = "camera2_matrix" -> <<fields[1], fields[2], fields[3], new[4], fields[5]>>
      [] pc = "camera2_distortion" -> <<fields[1], fields[2], fields[3], fields[4], new[5]>>

\* the reader about to fetch the cached fields
ReaderStart ==
    [pc |-> "camera1_matrix", K1 |-> None, dist1 |-> None, K2 |-> None, dist2 |-> None,
     views |-> <<>>]

\* what one transform call of the reader worked with, and what it returned
View(ext, reader, r) ==
    [ext |-> ext, K1 |-> reader.K1, dist1 |-> reader.dist1, K2 |-> reader.K2,
     dist2 |-> reader.dist2, result |-> r.result, msg |-> r.msg]

ReaderAfterCall(reader, view) ==
    [reader EXCEPT !.views = Append(@, view),
                   !.pc = IF Len(reader.views) + 1 = MaxReads THEN "done" ELSE "pose"]

\* the arguments of the writer's run and the outcomes of its OpenCV calls
ThreadsCamera1 == { <<CamA, None, NotCalled>>, <<None, None, MonoResult1(Mk(1, 2), 600, 600)>> }

ThreadsStereo == { LibRaised, StereoResult(F(50), RotY180, <<0, 0, 2000>>) }

\* the two threads start: the writer has run calibrate_with_chessboard up to
\* the return of cv2.stereoCalibrate
StartThreads ==
    /\ call = Idle
    /\ extrinsic_matrix # None
    /\ \E serialized \in BOOLEAN, c1 \in ThreadsCamera1, libs \in ThreadsStereo :
        \E pair \in {ImagePair(1, <<TRUE, TRUE>>)}, c2 \in {<<CamB, None, NotCalled>>} :
            \E r \in {calibrate_with_chessboard(calib, pair[1], pair[2], <<3, 2>>, F(25),
                                                c1[1], c2[1], c1[2], c2[2],
                                                c1[3], c2[3], libs)} :
                call' = [op |-> "threads", serialized |-> serialized,
                         old |-> calib, new |-> r.calib,
                         result |-> r.result, msg |-> r.msg,
                         writer |-> IF r.msg = "success" THEN "eye" ELSE "done",
                         reader |-> ReaderStart]
    /\ UNCHANGED <<calib, calib_file>>

ReaderInCall == call.reader.pc \notin {"camera1_matrix", "done"}

WriterInRun == call.writer \notin {"eye", "done"}

\* one storing statement of the calibration run
WriterStep ==
    /\ call.op = "threads"
    /\ call.writer # "done"
    /\ call.serialized => ~ReaderInCall
    /\ \E after \in {StoreStatement(call.writer, calib, call.new)} :
        /\ extrinsic_matrix' = after[1]
        /\ camera1_matrix' = after[2]
        /\ camera1_distortion' = after[3]
        /\ camera2_matrix' = after[4]
        /\ camera2_distortion' = after[5]
    /\ call' = [call EXCEPT !.writer = NextStatement(@)]
    /\ UNCHANGED calib_file

\* the caller of the transforms fetches one cached field
ReaderFetch ==
    /\ call.op = "threads"
    /\ call.reader.pc \in {"camera1_matrix", "camera1_distortion",
                           "camera2_matrix", "camera2_distortion"}
    /\ call.serialized => ~WriterInRun
    /\ call' = [call EXCEPT
                  !.reader = CASE @.pc = "camera1_matrix" ->
                                      [@ EXCEPT !.K1 = camera1_matrix,
                                                !.pc = "camera1_distortion"]
                               [] @.pc = "camera1_distortion" ->
                                      [@ EXCEPT !.dist1 = camera1_distortion,
                                                !.pc = "camera2_matrix"]
                               [] @.pc = "camera2_matrix" ->
                                      [@ EXCEPT !.K2 = camera2_matrix,
                                                !.pc = "camera2_distortion"]
                               [] @.pc = "camera2_distortion" ->
                                      [@ EXCEPT !.dist2 = camera2_distortion,
                                                !.pc = "pose"]]
    /\ UNCHANGED <<calib, calib_file>>

\* transform_point_with_projectpoints reads the pose and returns
ReaderTransform ==
    /\ call.op = "threads"
    /\ call.reader.pc = "pose"
    /\ \E lib \in LibFor(call.reader.dist1, call.reader.dist2) :
        \E r \in {transform_point_with_projectpoints(
                      extrinsic_matrix, <<F(400), F(300)>>, call.reader.K1, call.reader.K2,
                      call.reader.dist1, call.reader.dist2, F(1000), lib)} :
            call' = [call EXCEPT
                       !.reader = ReaderAfterCall(@, View(extrinsic_matrix, @, r))]
    /\ UNCHANGED <<calib, calib_file>>

\* both threads have finished
JoinThreads ==
    /\ call.op = "threads"
    /\ call.writer = "done"
    /\ call.reader.pc = "done"
    /\ call' = Idle
    /\ UNCHANGED <<calib, calib_file>>

ReturnFromCall ==
    /\ call.op # "threads"
    /\ Return

ConcurrentNext ==
    \/ LoadCalibration
    \/ StartThreads
    \/ WriterStep
    \/ ReaderFetch
    \/ ReaderTransform
    \/ JoinThreads
    \/ ReturnFromCall

ConcurrentSpec == Init /\ [][ConcurrentNext]_vars

(***************************************************************************)
(* Properties                                                              *)
(***************************************************************************)
PointOps == {"transform_point", "transform_point_with_projectpoints"}

TransformOps == PointOps \cup {"transform_roi", "transform_roi_planar",
                               "compute_homography_from_extrinsic"}

\* the camera-1 point of a point-transform call, as the call back-projects it
CallCam1Point ==
    LET s == IF call.op = "transform_point_with_projectpoints"
                /\ DistNonzero(call.dist1)
             THEN call.lib.und ELSE F(1)
        xn == FMul(s, FDiv(FSub(call.point[1], call.K1[1][3]), call.K1[1][1]))
        yn == FMul(s, FDiv(FSub(call.point[2], call.K1[2][3]), call.K1[2][2]))
    IN  << FMul(xn, call.depth), FMul(yn, call.depth), call.depth >>

\* z-coordinate of that point after the stored pose has been applied
CallCam2Z ==
    LET p == CallCam1Point
        e == extrinsic_matrix
    IN  FAdd(FAdd(FAdd(FMul(e[3][1], p[1]), FMul(e[3][2], p[2])),
                  FMul(e[3][3], p[3])), e[3][4])

\* the call is a point transform that gets as far as applying the pose
CallReachesPose ==
    /\ call.op \in PointOps
    /\ extrinsic_matrix # None
    /\ call.depth # None
    /\ FGt(call.depth, F(0))
    /\ call.K1 # None
    /\ (call.op = "transform_point_with_projectpoints" /\ DistNonzero(call.dist1)
           => DistLenOk(call.dist1))

\* C1: on an object whose pose was never set, every transform operation
\* returns the failure outcome None whatever its arguments, and is_calibrated()
\* is false.
C1_UncalibratedFails ==
    /\ (call.op \in TransformOps /\ extrinsic_matrix = None) => call.result = None
    /\ (call.op = "is_calibrated" /\ extrinsic_matrix = None) => call.result = FALSE

C1_Witness ==
    /\ extrinsic_matrix = None
    /\ call.op = "transform_point"
    /\ call.K1 = CamA
    /\ call.K2 = CamA
    /\ call.depth = F(1000)
    /\ call.result = None

\* the end-to-end scenario of C2: pose = identity rotation, translation
\* (100, 0, 0); both cameras fx = fy = 800, cx = 320, cy = 240, no distortion;
\* pixel (320, 240) at depth 1000
C2_Scenario ==
    /\ call.op \in PointOps
    /\ extrinsic_matrix = PoseShift
    /\ call.K1 = CamA
    /\ call.K2 = CamA
    /\ (~DistNonzero(call.dist1) /\ DistLenOk(call.dist1)) \/ call.op = "transform_point"
    /\ (~DistNonzero(call.dist2) /\ DistLenOk(call.dist2)) \/ call.op = "transform_point"
    /\ call.point = <<F(320), F(240)>>
    /\ call.depth = F(1000)

\* C2 as stated: in the end-to-end scenario the depth-based point transform
\* returns camera-2 pixel (240, 240).
C2_Original == C2_Scenario => call.result = <<F(240), F(240)>>

\* C2 amended: in the end-to-end scenario the depth-based point transform
\* returns camera-2 pixel (400, 240): the pose's translation is added to the
\* camera-1 point, which moves the pixel by +80.
C2_Amended == C2_Scenario => call.result = <<F(400), F(240)>>

C2_Witness ==
    /\ C2_Scenario
    /\ call.op = "transform_point_with_projectpoints"
    /\ call.result # None

\* C3: in both depth-based point transforms, a point whose z-coordinate after
\* the pose is <= 0 makes the operation fail, and pixel coordinates are
\* returned only when that z-coordinate is > 0.
C3_BehindCameraFails ==
    CallReachesPose =>
        /\ FLe(CallCam2Z, F(0)) => call.result = None
        /\ call.result # None => FGt(CallCam2Z, F(0))

C3_Witness ==
    /\ CallReachesPose
    /\ call.K2 # None
    /\ CallCam2Z = F(0)
    /\ call.result = None

\* the outcome of the same point-transform call made with pose e, camera-1
\* matrix K1 and depth d in place of the ones it was made with
CallProbe(e, K1, d) ==
    IF call.op = "transform_point"
    THEN transform_point(e, call.point, K1, call.K2, call.dist1, call.dist2, d)
    ELSE transform_point_with_projectpoints(e, call.point, K1, call.K2,
                                            call.dist1, call.dist2, d, call.lib)

\* C4 as stated: two failures of the point transform that have different
\* causes (not calibrated, missing/invalid depth, behind camera 2,
\* computation failure) return different values.
C4_Original ==
    (call.op \in PointOps /\ call.msg # "") =>
        \A e \in {None, extrinsic_matrix}, K1 \in {None, CamA}, d \in Depths :
            LET r == CallProbe(e, K1, d)
            IN  (r.msg # "" /\ r.msg # call.msg) => r.result # call.result

\* C4 amended: every failure of the point transform returns the same value
\* None whatever its cause; the cause shows only in the diagnostic printed,
\* which is a different message for each of: not calibrated, missing or
\* non-positive depth, point behind camera 2, computation failure.
C4_Amended ==
    call.op \in PointOps =>
        /\ (call.msg # "") <=> (call.result = None)
        /\ (call.msg = "not_calibrated") <=> (extrinsic_matrix = None)
        /\ (call.msg = "need_depth") <=>
               /\ extrinsic_matrix # None
               /\ (call.depth = None \/ FLe(call.depth, F(0)))
        /\ (call.msg = "behind_camera") =>
               (CallReachesPose /\ FLe(CallCam2Z, F(0)))
        /\ (call.msg = "exception") =>
               /\ extrinsic_matrix # None
               /\ call.depth # None
               /\ ~FLe(call.depth, F(0))
               /\ \/ call.K1 = None
                  \/ call.K2 = None
                  \/ ~DistLenOk(call.dist1)
                  \/ ~DistLenOk(call.dist2)

C4_Witness ==
    /\ call.op \in PointOps
    /\ call.msg = "behind_camera"
    /\ call.result = None

\* the corners transform_roi transformed successfully in this call
CallRoiCorners ==
    RoiTransformedCorners(extrinsic_matrix, call.roi, call.K1, call.K2,
                          call.dist1, call.dist2, call.depth_map,
                          <<call.lib, call.lib, call.lib, call.lib>>)

\* the call is a transform_roi that gets as far as the corner loop
CallRoiRuns ==
    /\ call.op = "transform_roi"
    /\ extrinsic_matrix # None
    /\ call.depth_map # None

\* C5: transform_roi fails when fewer than 2 of the 4 corners were
\* transformed successfully and returns a rectangle when 2, 3 or 4 were; a
\* rectangle of zero width or height is still returned.
C5_CornerCountPolicy ==
    CallRoiRuns =>
        /\ Len(CallRoiCorners) < 2 => call.result = None
        /\ Len(CallRoiCorners) >= 2 => (call.result # None /\ Len(call.result) = 4)

C5_Witness ==
    /\ CallRoiRuns
    /\ Len(CallRoiCorners) = 2
    /\ call.result # None
    /\ (call.result[3] = 0 \/ call.result[4] = 0)

\* C6: a rectangle (x, y, w, h) returned by transform_roi is the bounding box
\* of the transformed corners: x and x + w are the smallest and the largest
\* corner u (truncated), y and y + h the smallest and the largest corner v,
\* also when coordinates are negative.
C6_BoundingBox ==
    (CallRoiRuns /\ call.result # None) =>
        LET tc == CallRoiCorners
            us == [i \in 1..Len(tc) |-> tc[i][1]]
            vs == [i \in 1..Len(tc) |-> tc[i][2]]
        IN  /\ call.result[1] = FTrunc(SeqMin(us))
            /\ call.result[1] + call.result[3] = FTrunc(SeqMax(us))
            /\ call.result[2] = FTrunc(SeqMin(vs))
            /\ call.result[2] + call.result[4] = FTrunc(SeqMax(vs))

\* the corners the region transform would use if a corner whose own depth is
\* invalid took the mean of the valid depths within 5 pixels instead
CallRoiFallbackCorners ==
    SelectSeq([i \in 1..4 |->
                  UiPointTransform(extrinsic_matrix, RoiCorners(call.roi)[i],
                                   call.K1, call.K2, call.dist1, call.dist2,
                                   call.depth_map, call.lib)],
              LAMBDA c : c # None)

\* C7: in the depth-based region transform a corner whose own depth is <= 0
\* is transformed with the mean of the valid depths in its radius-5
\* neighbourhood, and is dropped only when that neighbourhood has none.
C7_NeighborhoodFallback ==
    CallRoiRuns => CallRoiCorners = CallRoiFallbackCorners

\* R - t * n^T / d for the pose, unit normal and plane depth of this call
CallPlaneMatrix ==
    LET n0 == IF call.op = "transform_roi_planar" THEN <<F(0), F(0), F(1)>>
              ELSE IF call.plane_normal = None THEN <<F(0), F(0), F(1)>>
              ELSE call.plane_normal
        len == Norm3(n0)
        e == extrinsic_matrix
    IN  [i \in 1..3 |-> [j \in 1..3 |->
            FSub(e[i][j],
                 FDiv(FMul(e[i][4], FDiv(n0[j], len)), call.plane_depth))]]

\* C8: a matrix H returned by compute_homography_from_extrinsic is
\* K2 (R - t n^T / d) K1^-1 scaled to H[2,2] = 1: H K1 is proportional to
\* K2 (R - t n^T / d), and the bottom-right entry of H is 1.
C8_HomographyFormula ==
    (call.op = "compute_homography_from_extrinsic" /\ call.result # None) =>
        LET H == call.result
            A == MatMul(H, call.K1)
            B == MatMul(call.K2, CallPlaneMatrix)
        IN  /\ H[3][3] = F(1)
            /\ \A i \in 1..3, j \in 1..3, k \in 1..3, l \in 1..3 :
                   FMul(A[i][j], B[k][l]) = FMul(A[k][l], B[i][j])

C8_Witness ==
    /\ call.op = "compute_homography_from_extrinsic"
    /\ call.result # None
    /\ call.plane_normal = <<F(0), F(3), F(4)>>
    /\ extrinsic_matrix = PoseForward
    /\ call.K2 = CamB

\* the [2,2] entry of K2 (R - t n^T / d) K1^-1 for pinhole camera matrices
CallH22 ==
    LET M == CallPlaneMatrix
        K1 == call.K1
    IN  FSub(FSub(M[3][3], FDiv(FMul(M[3][1], K1[1][3]), K1[1][1])),
             FDiv(FMul(M[3][2], K1[2][3]), K1[2][2]))

\* C9: for a plane distance of 0, or one for which the unnormalised H[2,2] is
\* 0 (within 1e-10), compute_homography_from_extrinsic and
\* transform_roi_planar refuse; a returned matrix or rectangle never holds
\* NaN or infinity.
C9_DegenerateRefused ==
    (call.op \in {"compute_homography_from_extrinsic", "transform_roi_planar"}
       /\ extrinsic_matrix # None) =>
        /\ call.plane_depth = F(0) => call.result = None
        /\ (call.K1 \in {CamA, CamB} /\ ~AbsGtPow10Neg(CallH22, 10))
               => call.result = None
        /\ (call.op = "compute_homography_from_extrinsic" /\ call.result # None)
               => ~MatHasNanOrInf(call.result)
        /\ (call.op = "transform_roi_planar" /\ call.result # None)
               => (Len(call.result) = 4 /\ \A i \in 1..4 : call.result[i] \in Int)

C9_Witness ==
    /\ call.op = "compute_homography_from_extrinsic"
    /\ extrinsic_matrix = PoseForward
    /\ call.K1 = CamA
    /\ call.K2 = CamA
    /\ call.plane_depth = F(1000)
    /\ call.plane_normal = None
    /\ CallH22 = F(0)
    /\ call.result = None

\* C10: on a calibrated object a depth-based point transform given no depth,
\* a depth <= 0 or a NaN depth returns None; transform_roi given no depth map
\* returns None.
C10_InvalidDepthFails ==
    /\ (call.op \in PointOps /\ extrinsic_matrix # None
          /\ (call.depth = None \/ FLe(call.depth, F(0)) \/ IsNaN(call.depth)))
           => call.result = None
    /\ (call.op = "transform_roi" /\ call.depth_map = None) => call.result = None

\* a reconstruction that returned a point map
CloudCall ==
    /\ call.op = "decode_point_cloud_from_depth"
    /\ call.msg = ""

\* the pixels <<row, column>> of the depth map of the call
CloudPixels == (1..MapH(call.depth)) \X (1..MapW(call.depth))

CloudDepthAt(px) == call.depth[px[1]][px[2]]

CloudPointAt(px) == call.result[px[1]][px[2]]

AllNaN(p) == IsNaN(p[1]) /\ IsNaN(p[2]) /\ IsNaN(p[3])

OutOfRange(d) == FLt(d, Mk(1, 10)) \/ FGt(d, F(6000))

\* C11 as stated: a reconstructed point has all three coordinates NaN if and
\* only if its depth d satisfies d < 0.1 or d > 6000, and every other point
\* has z equal to d.
C11_Original ==
    CloudCall =>
        \A px \in CloudPixels :
            /\ AllNaN(CloudPointAt(px)) <=> OutOfRange(CloudDepthAt(px))
            /\ ~AllNaN(CloudPointAt(px)) => CloudPointAt(px)[3] = CloudDepthAt(px)

\* C11 amended: a reconstructed point has all three coordinates NaN if and
\* only if its depth d satisfies d < 0.1 or d > 6000 or d is NaN; every other
\* point has z equal to d, and no point of an out-of-range or NaN depth
\* carries a finite coordinate.
C11_Amended ==
    CloudCall =>
        \A px \in CloudPixels :
            /\ AllNaN(CloudPointAt(px))
                   <=> (OutOfRange(CloudDepthAt(px)) \/ IsNaN(CloudDepthAt(px)))
            /\ ~AllNaN(CloudPointAt(px)) => CloudPointAt(px)[3] = CloudDepthAt(px)
            /\ (OutOfRange(CloudDepthAt(px)) \/ IsNaN(CloudDepthAt(px)))
                   => CloudPointAt(px) = NaN3

\* a map holding a NaN depth next to a depth of 1000 was reconstructed
C11_Witness ==
    /\ CloudCall
    /\ \E px \in CloudPixels :
           IsNaN(CloudDepthAt(px)) /\ CloudPointAt(px) = NaN3
    /\ \E px \in CloudPixels :
           CloudDepthAt(px) = F(1000) /\ CloudPointAt(px)[3] = F(1000)

\* the lookup-table entry (u', v') the claim names for the pixel <<row, column>>:
\* the supplied entry, or the pixel's own column and row when none is supplied
CloudExpectedUV(px) ==
    IF call.undistort_lut = None THEN <<F(px[2] - 1), F(px[1] - 1)>>
    ELSE call.undistort_lut[px[1]][px[2]]

ValidDepth(d) == ~OutOfRange(d) /\ ~IsNaN(d)

\* C12: for every valid pixel the reconstructor returns
\* x = (u' - cx) * depth / fx and y = (v' - cy) * depth / fy with (u', v') the
\* lookup-table entry of the pixel, and without a table (u', v') is the
\* pixel's column index and row index.
C12_PinholeWithLookup ==
    CloudCall =>
        \A px \in CloudPixels :
            ValidDepth(CloudDepthAt(px)) =>
                /\ CloudPointAt(px)[1]
                       = FDiv(FMul(FSub(CloudExpectedUV(px)[1], call.matrix[1][3]),
                                   CloudDepthAt(px)), call.matrix[1][1])
                /\ CloudPointAt(px)[2]
                       = FDiv(FMul(FSub(CloudExpectedUV(px)[2], call.matrix[2][3]),
                                   CloudDepthAt(px)), call.matrix[2][2])

\* a map of two rows and two columns was reconstructed without a table: the
\* pixel in row 0, column 1 has x = (1 - 320) * 1000 / 800 and y = (0 - 240) * 1000 / 800
C12_Witness ==
    /\ CloudCall
    /\ MapW(call.depth) = 2
    /\ MapH(call.depth) = 2
    /\ call.matrix = CamA
    /\ ValidDepth(CloudDepthAt(<<1, 2>>))
    /\ call.undistort_lut = None
    /\ CloudDepthAt(<<1, 2>>) = F(1000)
    /\ CloudPointAt(<<1, 2>>) = <<Mk(-1595, 4), F(-300), F(1000)>>

\* the five decoders that select a format by the tag
DecoderOps ==
    { "get_image_from_epicraw_bytes", "get_depth_from_bytes",
      "get_matrix_from_epicraw_bytes", "get_distortion_from_epicraw_bytes",
      "decode_point_cloud_from_bytes" }

\* the call was handed a buffer that holds a whole 8-byte tag
CallHasTag == call.op \in DecoderOps \cup {"_get_file_type"} /\ Len(call.data) >= 8

CallTag == SubSeq(call.data, 1, 8)

\* 'EPICRAW1' and 'EPICRAW2' in ASCII
AsciiEpicRaw1 == <<69, 80, 73, 67, 82, 65, 87, 49>>

AsciiEpicRaw2 == <<69, 80, 73, 67, 82, 65, 87, 50>>

\* the format the claim assigns to a tag: 1, 2, or 0 for unsupported
ClaimedFormat(tag) ==
    IF tag = AsciiEpicRaw1 THEN 1
    ELSE IF tag = AsciiEpicRaw2 THEN 2
    ELSE IF tag[8] = 0 THEN 1
    ELSE 0

\* C13: 'EPICRAW1' selects format 1, 'EPICRAW2' selects format 2, any other
\* tag whose 8th byte is zero selects format 1 and every remaining tag is
\* unsupported; for an unsupported tag the image, depth, matrix, distortion
\* and point-cloud decoders return the absent result and do not raise.
C13_VersionSelection ==
    /\ (call.op = "_get_file_type" /\ CallHasTag) =>
           /\ call.msg = ""
           /\ ClaimedFormat(CallTag) = 1 <=> call.result = EpicRaw1
           /\ ClaimedFormat(CallTag) = 2 <=> call.result = EpicRaw2
           /\ ClaimedFormat(CallTag) = 0 <=> call.result = NotSupported
    /\ (call.op \in DecoderOps /\ CallHasTag /\ ClaimedFormat(CallTag) = 0) =>
           /\ call.result = None
           /\ call.msg = ""

\* the image decoder was handed a whole frame tagged 'EPICRAW3'
C13_Witness ==
    /\ call.op = "get_image_from_epicraw_bytes"
    /\ call.data = Encode(call.frame)
    /\ CallTag = <<69, 80, 73, 67, 82, 65, 87, 51>>
    /\ Len(call.frame.image) > 0
    /\ call.result = None
    /\ call.msg = ""

\* a decoder was handed a whole frame laid out in the format its tag selects
WholeFrameCall ==
    /\ call.op \in DecoderOps
    /\ call.data = Encode(call.frame)
    /\ ClaimedFormat(call.frame.tag) = call.frame.layout

\* the section a decoder reads: its bytes in the frame of the call
SectionOf(op) ==
    IF op = "get_image_from_epicraw_bytes" THEN call.frame.image
    ELSE IF op = "get_depth_from_bytes" THEN call.frame.depth
    ELSE IF op = "get_matrix_from_epicraw_bytes" THEN call.frame.matrix
    ELSE call.frame.distortion

SectionOps == DecoderOps \ {"decode_point_cloud_from_bytes"}

\* C14: when the header of a frame gives length zero for the camera matrix,
\* the distortion, the depth payload or the image payload, the decoder of
\* that section returns the absent result and does not raise.
C14_ZeroLengthAbsent ==
    (WholeFrameCall /\ call.op \in SectionOps /\ Len(SectionOf(call.op)) = 0) =>
        /\ call.result = None
        /\ call.msg = ""

\* the bytes of a section grouped into elements of the given size
Elements(bytes, size) ==
    [k \in 1..(Len(bytes) \div size) |-> SubSeq(bytes, (k - 1) * size + 1, k * size)]

\* the array a section was encoded from: 8-bit pixels (format 1) or 16-bit
\* pixels (format 2) of shape (h, w, 3), float32 depth of shape (h, w), a
\* float64 3x3 matrix, a float64 vector; an empty payload encodes no array
PlacedArray(op, s) ==
    IF op = "get_image_from_epicraw_bytes"
    THEN (IF Len(s.image) = 0 THEN None
          ELSE <<<<s.height, s.width, 3>>, Elements(s.image, s.layout)>>)
    ELSE IF op = "get_depth_from_bytes"
    THEN (IF Len(s.depth) = 0 THEN None
          ELSE <<<<s.height, s.width>>, Elements(s.depth, 4)>>)
    ELSE IF op = "get_matrix_from_epicraw_bytes"
    THEN <<<<3, 3>>, Elements(s.matrix, 8)>>
    ELSE <<<<Len(s.distortion) \div 8>>, Elements(s.distortion, 8)>>

\* C15: for every frame laid out in format 1 or format 2, the image, depth,
\* matrix and distortion decoders each return exactly the values placed in
\* their own section, whatever the other sections hold.
C15_RoundTrip ==
    (/\ WholeFrameCall
     /\ call.op \in SectionOps
     /\ Len(call.frame.matrix) = 72
     /\ Len(call.frame.distortion) > 0) =>
        /\ call.msg = ""
        /\ call.result = PlacedArray(call.op, call.frame)

\* the depth of a format-2 frame with a config blob and an image was decoded
C15_Witness ==
    /\ WholeFrameCall
    /\ call.op = "get_depth_from_bytes"
    /\ call.frame.layout = 2
    /\ call.frame.width = 2
    /\ Len(call.frame.matrix) = 72
    /\ Len(call.frame.distortion) = 40
    /\ Len(call.frame.config) = 2
    /\ Len(call.frame.image) = 12
    /\ call.result = << <<1, 2>>, << <<0, 136, 187, 69>>, <<0, 0, 122, 68>> >> >>

MultiCall == call.op = "calibrate_with_multiple_images"

SingleCall == call.op = "calibrate_with_chessboard"

\* the board was found in both images of the pair
PairDetected(pair) == pair[1].board /\ pair[2].board

\* the positions, among the first n input pairs, of the pairs detected in both
SuccessfulPairs(image_pairs, n) == { i \in 1..n : PairDetected(image_pairs[i]) }

\* C16: multi-pair calibration runs the stereo optimization only when at
\* least 3 input pairs had the target detected in both images; a pair with a
\* failed detection contributes nothing; with 0, 1 or 2 successful pairs the
\* call returns a failure and leaves the stored pose as it was.
C16_ThreePairsNeeded ==
    MultiCall =>
        /\ call.libs # NotCalled =>
               Cardinality(SuccessfulPairs(call.image_pairs, Len(call.image_pairs))) >= 3
        /\ call.lists # None =>
               Len(call.lists.objpoints)
                   = Cardinality(SuccessfulPairs(call.image_pairs, Len(call.image_pairs)))
        /\ Cardinality(SuccessfulPairs(call.image_pairs, Len(call.image_pairs))) < 3 =>
               /\ call.result = FALSE
               /\ extrinsic_matrix = call.before[1]

\* four pairs of which two were detected were handed to an object that holds
\* a pose: the call failed and the pose is the one held before
C16_Witness ==
    /\ MultiCall
    /\ Len(call.image_pairs) = 4
    /\ Cardinality(SuccessfulPairs(call.image_pairs, 4)) = 2
    /\ call.K1 # None
    /\ call.K2 # None
    /\ call.result = FALSE
    /\ call.msg = "too_few_pairs"
    /\ call.before[1] = PoseShift
    /\ extrinsic_matrix = PoseShift

\* the position in the input of the k-th pair detected in both images
KthSuccessful(image_pairs, k) ==
    CHOOSE i \in 1..Len(image_pairs) :
        /\ PairDetected(image_pairs[i])
        /\ Cardinality(SuccessfulPairs(image_pairs, i)) = k

\* the three lists hold one entry per successful pair among the first n, the
\* k-th entries being the corners of the two images of the k-th such pair
ListsAligned(lists, image_pairs, n) ==
    /\ Len(lists.objpoints) = Cardinality(SuccessfulPairs(image_pairs, n))
    /\ Len(lists.imgpoints1) = Cardinality(SuccessfulPairs(image_pairs, n))
    /\ Len(lists.imgpoints2) = Cardinality(SuccessfulPairs(image_pairs, n))
    /\ lists.success_count = Cardinality(SuccessfulPairs(image_pairs, n))
    /\ \A k \in 1..Cardinality(SuccessfulPairs(image_pairs, n)) :
           /\ lists.imgpoints1[k] = <<image_pairs[KthSuccessful(image_pairs, k)][1].name>>
           /\ lists.imgpoints2[k] = <<image_pairs[KthSuccessful(image_pairs, k)][2].name>>

\* C17: after every pass of the detection loop of multi-pair calibration the
\* lists of object points, camera-1 corners and camera-2 corners have the
\* same length, the number of successful pairs so far, and their k-th
\* entries come from the k-th successful pair in input order; in single-pair
\* calibration each list holds the one entry of the pair.
C17_ListsAligned ==
    /\ (MultiCall /\ call.lists # None) =>
           /\ \A n \in 0..Len(call.image_pairs) :
                  ListsAligned(DetectionLoop(call.image_pairs,
                                             ObjectPoints(call.pattern_size, call.square_size),
                                             n),
                               call.image_pairs, n)
           /\ call.lists = DetectionLoop(call.image_pairs,
                                         ObjectPoints(call.pattern_size, call.square_size),
                                         Len(call.image_pairs))
    /\ (SingleCall /\ call.lists # None) =>
           ListsAligned(call.lists, <<<<call.image1, call.image2>>>>, 1)

\* four pairs were examined of which the second failed in camera 1 and the
\* third in camera 2: the lists hold the corners of pairs 1 and 4
C17_Witness ==
    /\ MultiCall
    /\ call.lists # None
    /\ Len(call.image_pairs) = 4
    /\ ~call.image_pairs[2][1].board /\ call.image_pairs[2][2].board
    /\ call.image_pairs[3][1].board /\ ~call.image_pairs[3][2].board
    /\ call.lists.imgpoints1 = << <<<<1, 1>>>>, <<<<4, 1>>>> >>
    /\ call.lists.imgpoints2 = << <<<<1, 2>>>>, <<<<4, 2>>>> >>

\* the object point the claim gives for the 0-based index k
ClaimedObjectPoint(k, cols, square_size) ==
    << FMul(F(k % cols), square_size), FMul(F(k \div cols), square_size), F(0) >>

\* C18: cols*rows object points are generated, the point at 0-based index k
\* being ((k mod cols) * s, (k div cols) * s, 0), in single-pair and in
\* multi-pair calibration alike.
C18_ObjectPoints ==
    ((MultiCall \/ SingleCall) /\ call.lists # None) =>
        \A v \in 1..Len(call.lists.objpoints) :
            /\ Len(call.lists.objpoints[v]) = call.pattern_size[1] * call.pattern_size[2]
            /\ \A k \in 0..(call.pattern_size[1] * call.pattern_size[2] - 1) :
                   call.lists.objpoints[v][k + 1]
                       = ClaimedObjectPoint(k, call.pattern_size[1], call.square_size)

\* a grid of 3 columns and 2 rows with squares of 25: the point at index 3
\* starts the second row
C18_Witness ==
    /\ SingleCall
    /\ call.lists # None
    /\ call.pattern_size = <<3, 2>>
    /\ call.square_size = F(25)
    /\ Len(call.lists.objpoints[1]) = 6
    /\ call.lists.objpoints[1][3] = <<F(50), F(0), F(0)>>
    /\ call.lists.objpoints[1][4] = <<F(0), F(25), F(0)>>

\* the initial guess the claim names for an image: fx = fy = 0.8 * max(w, h),
\* cx = w / 2, cy = h / 2
ClaimedGuess(image) ==
    CameraMatrixQ(Mk(8 * IMax(image.shape[2], image.shape[1]), 10),
                  Mk(8 * IMax(image.shape[2], image.shape[1]), 10),
                  Mk(image.shape[2], 2), Mk(image.shape[1], 2))

\* the optimized matrix fails one of the two checks the claim names
FailsChecks(matrix, image) ==
    \/ FocalOutOfRange(matrix, image.shape[2], image.shape[1])
    \/ PrincipalPointOutside(matrix, image.shape[2], image.shape[1])

\* a single-pair call that estimated camera 1, or camera 2, and went on to
\* calibrate the pair successfully
Estimated1 == SingleCall /\ call.msg = "success" /\ call.K1 = None

Estimated2 == SingleCall /\ call.msg = "success" /\ call.K2 = None

\* C19: when the intrinsics of camera 1 or camera 2 are estimated and the
\* optimized result has a focal length outside [0.3, 3.0] times the image
\* dimension or a principal point outside the image, the intrinsics handed
\* to the stereo calibration are exactly the initial guess
\* (0.8 * max(w, h), w / 2, h / 2) with an all-zero distortion vector.
C19_FallbackToGuess ==
    /\ (Estimated1 /\ FailsChecks(call.lib1.matrix, call.image1)) =>
           /\ camera1_matrix = ClaimedGuess(call.image1)
           /\ camera1_distortion = DistZero
    /\ (Estimated2 /\ FailsChecks(call.lib2.matrix, call.image2)) =>
           /\ camera2_matrix = ClaimedGuess(call.image2)
           /\ camera2_distortion = DistZero

\* C20: every outcome of calibrate_with_chessboard and of
\* calibrate_with_multiple_images, successful or failed, carries a numeric
\* reprojection error next to its flag.
C20_ErrorAlwaysReturned ==
    (SingleCall \/ MultiCall) => call.error # None

\* the stored pose is a 4x4 matrix whose bottom row is [0, 0, 0, 1]
IsHomogeneousPose(ext) ==
    /\ Len(ext) = 4
    /\ \A i \in 1..4 : Len(ext[i]) = 4
    /\ ext[4] = <<F(0), F(0), F(0), F(1)>>

\* C21: in every state reachable by any sequence of calibrate_with_chessboard,
\* calibrate_with_multiple_images, load_calibration, save_calibration and
\* transform calls, the stored pose is either absent or a 4x4 matrix whose
\* bottom row is [0, 0, 0, 1].
C21_PoseShape == extrinsic_matrix = None \/ IsHomogeneousPose(extrinsic_matrix)

CalibrationOps == {"calibrate_with_chessboard", "calibrate_with_multiple_images"}

\* the intrinsics and distortion handed to cv2.stereoCalibrate by this
\* calibration call: <<K1, dist1, K2, dist2>>
CallFittedWith ==
    IF call.op = "calibrate_with_multiple_images"
    THEN << call.K1, DistOrZeros(call.dist1), call.K2, DistOrZeros(call.dist2) >>
    ELSE << Camera1Intrinsics(call.K1, call.dist1, call.lib1).matrix,
            Camera1Intrinsics(call.K1, call.dist1, call.lib1).dist,
            Camera2Intrinsics(call.image2, call.K2, call.dist2, call.lib2).matrix,
            Camera2Intrinsics(call.image2, call.K2, call.dist2, call.lib2).dist >>

\* C22: after every successful calibration run, single-pair or multi-pair, the
\* stored pose is the new one and the cached intrinsics and distortion of both
\* cameras are exactly the ones the new pose was fitted with, never ones left
\* over from before the run.
C22_CachedIntrinsicsOfRun ==
    (call.op \in CalibrationOps /\ call.msg = "success") =>
        /\ extrinsic_matrix = PoseMatrix(call.libs.R, call.libs.T)
        /\ << camera1_matrix, camera1_distortion,
              camera2_matrix, camera2_distortion >> = CallFittedWith

\* the calibration a transform call of the reader worked with
ViewFields(view) == <<view.ext, view.K1, view.dist1, view.K2, view.dist2>>

ReaderViews == call.reader.views

\* a transform call that worked with neither the calibration before the run
\* nor the one after it
TornView(view) == ViewFields(view) \notin {call.old, call.new}

\* C23: when every calibration run is serialized against the transform calls,
\* each transform works with exactly one complete calibration, the one before
\* the run or the one after it.  Without serialization a transform call that
\* interleaves with a single-pair calibration run can work with a calibration
\* that is neither: an identity pose, the new rotation without its
\* translation, or the new pose with the old cached intrinsics (C23_Witness).
C23_SerializedReadsComplete ==
    (call.op = "threads" /\ call.serialized) =>
        \A i \in 1..Len(ReaderViews) : ~TornView(ReaderViews[i])

\* an unserialized run in which three transform calls of the reader worked
\* with an identity pose, with the new rotation without its translation, and
\* with the new pose and the old cached intrinsics
C23_Witness ==
    /\ call.op = "threads"
    /\ ~call.serialized
    /\ call.msg = "success"
    /\ Len(ReaderViews) = 3
    /\ \A i \in 1..3 : TornView(ReaderViews[i])
    /\ ReaderViews[1].ext = IdentityPose
    /\ ReaderViews[2].ext = WithRotation(IdentityPose, call.new[1])
    /\ ReaderViews[2].ext # call.new[1]
    /\ ReaderViews[3].ext = call.new[1]
    /\ ReaderViews[3].K1 = call.old[2]
    /\ call.old[2] # call.new[2]
    /\ ReaderViews[3].result # None

IntrinsicKeys ==
    {"camera1_matrix", "camera1_distortion", "camera2_matrix", "camera2_distortion"}

\* the five fields as a record keyed like the persisted document, given as
\* <<pose, camera1_matrix, camera1_distortion, camera2_matrix, camera2_distortion>>
FieldsByKey(fields) ==
    [extrinsic_matrix |-> fields[1], camera1_matrix |-> fields[2],
     camera1_distortion |-> fields[3], camera2_matrix |-> fields[4],
     camera2_distortion |-> fields[5]]

FreshFields == <<None, None, None, None, None>>

\* a step that is a call of save_calibration, and one of load_calibration
SaveStep == call = Idle /\ call'.op = "save_calibration"

LoadStep == call = Idle /\ call'.op = "load_calibration"

\* the document holds the pose and exactly the intrinsic fields that are set
\* in fields, each with its value
DocumentHolds(file, fields) ==
    /\ file.exists
    /\ file.readable
    /\ DOMAIN file.data =
           {"extrinsic_matrix"} \cup {k \in IntrinsicKeys : FieldsByKey(fields)[k] # None}
    /\ \A k \in DOMAIN file.data : file.data[k] = FieldsByKey(fields)[k]

\* fields are the pose of the document and its intrinsic fields, a field the
\* document omits being absent
FieldsRestore(fields, file) ==
    /\ FieldsByKey(fields)["extrinsic_matrix"] = file.data["extrinsic_matrix"]
    /\ \A k \in IntrinsicKeys :
           FieldsByKey(fields)[k] = IF k \in DOMAIN file.data THEN file.data[k] ELSE None

\* C24: save_calibration on a calibrated object writes a record holding the
\* pose and exactly the camera-1/camera-2 matrix and distortion fields that are
\* set, and leaves the object as it is; load_calibration of a record into a
\* fresh object reproduces the pose and those fields, absent fields staying
\* absent, so that save followed by load into a fresh object is the identity;
\* save_calibration on an object with no pose returns failure and writes no
\* record.
C24_RoundTrip ==
    [][ /\ (SaveStep /\ extrinsic_matrix # None) =>
              /\ call'.result = TRUE
              /\ DocumentHolds(calib_file', calib)
              /\ calib' = calib
        /\ (SaveStep /\ extrinsic_matrix = None) =>
              /\ call'.result = FALSE
              /\ calib_file' = calib_file
        /\ (LoadStep /\ calib = FreshFields /\ call'.result = TRUE) =>
              FieldsRestore(calib', calib_file)
      ]_vars

\* a record written by save_calibration after a multi-pair calibration of an
\* object that held only a camera-1 matrix has been loaded: the pose and the
\* camera-1 matrix are back, the other fields are absent
C24_Witness ==
    /\ call.op = "load_calibration"
    /\ call.result = TRUE
    /\ DocumentHolds(calib_file, calib)
    /\ extrinsic_matrix = PoseMatrix(RotY180, <<0, 0, 2000>>)
    /\ camera1_matrix = CamA
    /\ camera1_distortion = None
    /\ camera2_matrix = None
    /\ camera2_distortion = None

ReadOnlyOps ==
    {"transform_point", "transform_point_with_projectpoints", "transform_roi",
     "transform_roi_planar", "compute_homography_from_extrinsic",
     "detect_chessboard", "is_calibrated", "save_calibration"}

\* the result of the transform of call c made once more on the pose ext, with
\* the arguments of the call
CallAgain(c, ext) ==
    CASE c.op = "transform_point" ->
             transform_point(ext, c.point, c.K1, c.K2,
                             c.dist1, c.dist2, c.depth).result
      [] c.op = "transform_point_with_projectpoints" ->
             transform_point_with_projectpoints(
                 ext, c.point, c.K1, c.K2, c.dist1, c.dist2, c.depth, c.lib).result
      [] c.op = "transform_roi" ->
             transform_roi(ext, c.roi, c.K1, c.K2, c.dist1, c.dist2, c.depth_map,
                           <<c.lib, c.lib, c.lib, c.lib>>).result
      [] c.op = "transform_roi_planar" ->
             transform_roi_planar(ext, c.roi, c.K1, c.K2, c.plane_depth,
                                  c.dist1, None, c.lib).result
      [] c.op = "compute_homography_from_extrinsic" ->
             compute_homography_from_extrinsic(
                 ext, c.K1, c.K2, c.plane_depth, c.plane_normal).result
      [] OTHER -> c.result

\* C25: transform_point, transform_point_with_projectpoints, transform_roi,
\* transform_roi_planar, compute_homography_from_extrinsic, detect_chessboard,
\* is_calibrated and save_calibration leave the pose and the cached intrinsics
\* as they were, and a transform made again with the same arguments returns
\* the same result.
C25_ReadOnly ==
    [][ (call = Idle /\ call'.op \in ReadOnlyOps) =>
            /\ calib' = calib
            /\ CallAgain(call', extrinsic_matrix') = call'.result
      ]_vars

\* a point transform has returned a pixel on an object that holds a pose and
\* the cached intrinsics of both cameras
C25_Witness ==
    /\ call.op = "transform_point"
    /\ call.result # None
    /\ extrinsic_matrix # None
    /\ camera1_matrix # None
    /\ camera2_matrix # None
    /\ camera1_matrix # call.K1

\* the camera-2 pixel the homography H gives for the camera-1 pixel p: H
\* applied to (u, v, 1) and divided by the third component
HomographyPixel(H, p) ==
    << FDiv(MatVec(H, <<p[1], p[2], F(1)>>)[1], MatVec(H, <<p[1], p[2], F(1)>>)[3]),
       FDiv(MatVec(H, <<p[1], p[2], F(1)>>)[2], MatVec(H, <<p[1], p[2], F(1)>>)[3]) >>

\* the homography maps p to a finite pixel
HomographyMaps(H, p) ==
    /\ IsFinite(MatVec(H, <<p[1], p[2], F(1)>>)[3])
    /\ ~AbsLtPow10Neg(MatVec(H, <<p[1], p[2], F(1)>>)[3], 6)

\* the depth-based transform of p with the arguments of the homography call
\* and the plane depth as the depth of the point
CallDepthPixel(p) ==
    transform_point(extrinsic_matrix, p, call.K1, call.K2, None, None,
                    call.plane_depth).result

\* C26: for a plane depth d > 0 and the default normal, the homography of
\* compute_homography_from_extrinsic applied to a camera-1 pixel and
\* dehomogenised gives the camera-2 pixel that the depth-based point transform
\* gives for that pixel at depth d, whenever both succeed.
C26_PlanarAgreesWithDepth ==
    ( /\ call.op = "compute_homography_from_extrinsic"
      /\ call.plane_normal = None
      /\ call.result # None
      /\ FLt(F(0), call.plane_depth) )
    => \A p \in Points :
          (CallDepthPixel(p) # None /\ HomographyMaps(call.result, p))
          => HomographyPixel(call.result, p) = CallDepthPixel(p)

\* the distortion vector is absent, empty or all zero
DistAbsentOrZero(dist) == ~DistNonzero(dist)

\* C27: when the distortion vectors of both cameras are absent, empty or all
\* zero, transform_point and transform_point_with_projectpoints fail on the
\* same inputs and otherwise return the same camera-2 pixel.
C27_PointTransformsAgree ==
    ( /\ call.op \in PointOps
      /\ DistAbsentOrZero(call.dist1)
      /\ DistAbsentOrZero(call.dist2) )
    => transform_point(extrinsic_matrix, call.point, call.K1, call.K2,
                       call.dist1, call.dist2, call.depth).result
       = transform_point_with_projectpoints(
             extrinsic_matrix, call.point, call.K1, call.K2,
             call.dist1, call.dist2, call.depth, call.lib).result

\* the last call was a calibration run that returned failure
CalibrationFailed ==
    /\ call.op \in CalibrationOps
    /\ call.msg \notin {"success", "raised"}

\* C28: when calibrate_with_chessboard or calibrate_with_multiple_images
\* returns failure, the stored pose and the cached matrix and distortion of
\* both cameras are what they were before the call.
C28_FailedCalibrationKeepsState ==
    CalibrationFailed => (call.result = FALSE /\ calib = call.before)

\* the optimizer reported failure, with a rotation and translation of its own,
\* on an object that held the pose and the intrinsics of an earlier run
C28_Witness ==
    /\ CalibrationFailed
    /\ call.msg = "stereo_failed"
    /\ call.before[1] = PoseMatrix(RotY180, <<0, 0, 2000>>)
    /\ call.before[2] # None
    /\ call.before[4] # None
    /\ call.libs.R = Identity3

\* C29: after a successful load_calibration the pose and the cached matrix and
\* distortion of each camera are the contents of the loaded record, a field the
\* record omits being absent whatever the object held before; a
\* load_calibration that returns failure leaves the pose and the cached
\* intrinsics unchanged.
C29_LoadReplacesCalibration ==
    [][ LoadStep =>
            IF call'.result
            THEN FieldsRestore(calib', calib_file)
            ELSE calib' = calib
      ]_vars

\* the rectangle of this call lies within the depth map of this call
CallRoiWithinMap ==
    /\ 0 <= call.roi[1]
    /\ 0 <= call.roi[2]
    /\ 0 <= call.roi[3]
    /\ 0 <= call.roi[4]
    /\ call.roi[1] + call.roi[3] <= MapW(call.depth_map)
    /\ call.roi[2] + call.roi[4] <= MapH(call.depth_map)

\* C30: for a rectangle lying within the depth map, rectangles touching the
\* right or bottom edge included, transform_roi reads a depth for each of the
\* four corners: none is discarded as being outside the depth map.
C30_EdgeCornersSampled ==
    (CallRoiRuns /\ CallRoiWithinMap)
    => \A i \in 1..4 :
          InMap(call.depth_map, RoiCorners(call.roi)[i][1], RoiCorners(call.roi)[i][2])

====
